---- MODULE Spec2Model ----
(***************************************************************************)
(* Solinas64: finite field arithmetic modulo p = 2^64 - 2^32 + 1 and the   *)
(* byte/word codecs built on it (solinas64.h, solinas64.cpp).              *)
(*                                                                         *)
(* A uint64_t is modelled as the sequence of its 8 bytes, least            *)
(* significant first, so that every operation keeps the 64-bit width of    *)
(* the source: sums and differences wrap modulo 2^64 and report the carry  *)
(* or borrow exactly like adc() and sbb().  Longer byte sequences are      *)
(* exact natural numbers and are used for the 128-bit product and for the  *)
(* mathematical reference values of the properties.                        *)
(***************************************************************************)
EXTENDS Integers, Naturals, Sequences, FiniteSets, TLC

VARIABLES
    pc,       \* position of the running operation
    x, y,     \* operands of the field operation under test
    res,      \* what the last field operation returned and how it got there
    inv,      \* locals of Inverse(): u1, u3, v1, v3
    mem,      \* the byte buffer a writer fills and a reader reads back
    writer,   \* WordWriter: DataWritePtr (offset from Data), Workspace, Available
    reader,   \* WordReader: Data (offset), Bytes, Workspace, Available
    wrote,    \* the words passed to Write so far
    got,      \* the words returned by Read so far
    ret,      \* what Flush returned
    data,     \* the input region of a bulk operation
    coeff,    \* its coefficient
    out,      \* its output buffer
    work,     \* its workspace buffer
    call,     \* the finished bulk call: name, return value, data operands of Multiply
    back,     \* the inverse pass: output buffer, return value, data operands
    rand      \* Random: State[0..3], and the number of Next() calls so far

fieldVars == <<x, y, res, inv>>
codecVars == <<mem, writer, reader, wrote, got, ret>>
regionVars == <<data, coeff, out, work, call, back>>
randVars == <<rand>>
vars == <<pc, x, y, res, inv, mem, writer, reader, wrote, got, ret,
          data, coeff, out, work, call, back, rand>>

-----------------------------------------------------------------------------
(* Unsigned integers as little-endian byte sequences *)

Base == 256

RECURSIVE Pow2(_)
Pow2(n) == IF n = 0 THEN 1 ELSE 2 * Pow2(n - 1)

Zeros(n) == SubSeq([i \in 1..n |-> 0], 1, n)

\* The value a, truncated or zero-extended to n bytes
Pad(a, n) == SubSeq([i \in 1..n |-> IF i <= Len(a) THEN a[i] ELSE 0], 1, n)

RECURSIVE AddBytes(_, _, _, _)
\* bytes i.. of a + b + cin (a, b of equal length), followed by the carry out
AddBytes(a, b, i, cin) ==
    IF i > Len(a) THEN <<cin>>
    ELSE LET s == a[i] + b[i] + cin
         IN  <<s % Base>> \o AddBytes(a, b, i + 1, s \div Base)

RECURSIVE SubBytes(_, _, _, _)
\* bytes i.. of a - b - bin modulo Base^Len(a), followed by the borrow out
SubBytes(a, b, i, bin) ==
    IF i > Len(a) THEN <<bin>>
    ELSE LET d == a[i] - b[i] - bin
         IN  <<d % Base>> \o SubBytes(a, b, i + 1, IF d < 0 THEN 1 ELSE 0)

\* Exact sum, one byte longer than the longer operand
BigAdd(a, b) ==
    LET n == IF Len(a) >= Len(b) THEN Len(a) ELSE Len(b)
    IN  AddBytes(Pad(a, n), Pad(b, n), 1, 0)

\* a < b as natural numbers
BigLess(a, b) ==
    \E n \in {IF Len(a) >= Len(b) THEN Len(a) ELSE Len(b)} :
        \E pa \in {Pad(a, n)}, pb \in {Pad(b, n)} :
            \E i \in 1..n : pa[i] < pb[i] /\ \A k \in (i + 1)..n : pa[k] = pb[k]

\* a = b as natural numbers
BigEq(a, b) ==
    LET n == IF Len(a) >= Len(b) THEN Len(a) ELSE Len(b)
    IN  Pad(a, n) = Pad(b, n)

\* a - b for a >= b, as long as a
BigSub(a, b) == SubSeq(SubBytes(a, Pad(b, Len(a)), 1, 0), 1, Len(a))

RECURSIVE MulColumns(_, _, _, _)
\* bytes k.. of the schoolbook product of a and b, carry passed between columns
MulColumns(a, b, k, carry) ==
    IF k > Len(a) + Len(b) THEN <<>>
    ELSE LET lo == IF k + 1 - Len(b) > 1 THEN k + 1 - Len(b) ELSE 1
             hi == IF k < Len(a) THEN k ELSE Len(a)
             RECURSIVE Col(_)
             Col(i) == IF i > hi THEN 0 ELSE a[i] * b[k + 1 - i] + Col(i + 1)
             s == Col(lo) + carry
         IN  <<s % Base>> \o MulColumns(a, b, k + 1, s \div Base)

\* Exact product, Len(a) + Len(b) bytes
BigMul(a, b) ==
    CHOOSE r \in {MulColumns(n, m, 1, 0) : n \in {a}, m \in {b}} : TRUE

RECURSIVE DivDigit(_, _, _, _)
\* One quotient digit: subtract b * 2^k from r for k = 7..0 wherever it fits
DivDigit(r, b, k, q) ==
    IF k < 0 THEN [q |-> q, r |-> r]
    ELSE CHOOSE d \in
           {IF BigLess(r, bk) THEN DivDigit(r, b, k - 1, q)
            ELSE CHOOSE e \in {DivDigit(rs, b, k - 1, q + Pow2(k)) :
                                   rs \in {BigSub(r, bk)}} : TRUE :
               bk \in {BigMul(b, <<Pow2(k)>>)}} : TRUE

RECURSIVE DivDigits(_, _, _, _, _)
\* Long division of a by b /= 0, from byte i down to byte 1; r < b is the
\* running remainder (Len(b) bytes), q the quotient digits found so far
DivDigits(a, b, i, r, q) ==
    IF i = 0 THEN [q |-> q, r |-> r]
    ELSE CHOOSE res2 \in
           {IF BigLess(r2, b)
            THEN CHOOSE e \in {DivDigits(a, b, i - 1, rn, qn) :
                                   rn \in {SubSeq(r2, 1, Len(b))},
                                   qn \in {<<0>> \o q}} : TRUE
            ELSE CHOOSE e \in {DivDigits(a, b, i - 1, SubSeq(d.r, 1, Len(b)),
                                         <<d.q>> \o q) :
                                   d \in {DivDigit(r2, b, 7, 0)}} : TRUE :
               r2 \in {<<a[i]>> \o r}} : TRUE

\* Quotient (Len(a) bytes) and remainder (Len(b) bytes) of a by b /= 0
BigDivMod(a, b) ==
    CHOOSE d \in {DivDigits(n, m, Len(n), Zeros(Len(m)), <<>>) :
                      n \in {a}, m \in {b}} : TRUE

BigMod(a, b) == BigDivMod(a, b).r

\* Bit k (0 = least significant) of a, 0 beyond its length
BitOf(a, k) ==
    IF (k \div 8) + 1 > Len(a) THEN 0
    ELSE (a[(k \div 8) + 1] \div Pow2(k % 8)) % 2

-----------------------------------------------------------------------------
(* uint64_t *)

U64Zero == Zeros(8)
U64One  == <<1, 0, 0, 0, 0, 0, 0, 0>>

\* The uint64_t with value 2^k, k in 0..63
U64Pow2(k) == [i \in 1..8 |-> IF i = (k \div 8) + 1 THEN Pow2(k % 8) ELSE 0]

\* uint64_t arithmetic wraps modulo 2^64
U64Add(a, b) ==
    CHOOSE r \in {SubSeq(AddBytes(n, m, 1, 0), 1, 8) : n \in {a}, m \in {b}} : TRUE
U64Sub(a, b) ==
    CHOOSE r \in {SubSeq(SubBytes(n, m, 1, 0), 1, 8) : n \in {a}, m \in {b}} : TRUE
U64Mul(a, b) == SubSeq(BigMul(a, b), 1, 8)
U64Div(a, b) == BigDivMod(a, b).q
U64Rem(a, b) == BigDivMod(a, b).r
U64GE(a, b)  == ~BigLess(a, b)

\* a << s and a >> s for a shift count s in 0..63
U64Shl(a, s) ==
    LET q == s \div 8
        r == s % 8
        at(i) == IF i >= 1 THEN a[i] ELSE 0
    IN  SubSeq([i \in 1..8 |->
                   ((at(i - q) * Pow2(r)) % Base) + (at(i - q - 1) \div Pow2(8 - r))], 1, 8)

U64Shr(a, s) ==
    LET q == s \div 8
        r == s % 8
        at(i) == IF i <= 8 THEN a[i] ELSE 0
    IN  SubSeq([i \in 1..8 |->
                   (at(i + q) \div Pow2(r)) + ((at(i + q + 1) * Pow2(8 - r)) % Base)], 1, 8)

RECURSIVE OrBits(_, _, _)
\* Bitwise or of the low n bits of two bytes
OrBits(a, b, n) ==
    IF n = 0 THEN 0
    ELSE (IF a % 2 = 1 \/ b % 2 = 1 THEN 1 ELSE 0) + 2 * OrBits(a \div 2, b \div 2, n - 1)

U64Or(a, b) == SubSeq([i \in 1..8 |-> OrBits(a[i], b[i], 8)], 1, 8)

RECURSIVE AndBits(_, _, _)
\* Bitwise and of the low n bits of two bytes
AndBits(a, b, n) ==
    IF n = 0 THEN 0
    ELSE (IF a % 2 = 1 /\ b % 2 = 1 THEN 1 ELSE 0) + 2 * AndBits(a \div 2, b \div 2, n - 1)

U64And(a, b) == SubSeq([i \in 1..8 |-> AndBits(a[i], b[i], 8)], 1, 8)

\* The low 61 bits of a
Low61(a) == [a EXCEPT ![8] = @ % 32]

-----------------------------------------------------------------------------
(* Constants (solinas64.h) *)

\* 2^32 - 1
kPrimeSubC == <<255, 255, 255, 255, 0, 0, 0, 0>>

\* p = 2^64 - 2^32 + 1, computed as 0 - kPrimeSubC in 64 bits
kPrime == U64Sub(U64Zero, kPrimeSubC)

-----------------------------------------------------------------------------
(* Field primitives (solinas64.h) *)

\* x += y; returns true when the 64-bit sum wrapped
adc(a, b) ==
    LET s == U64Add(a, b)
    IN  [x |-> s, carry |-> ~U64GE(s, b)]

\* x -= y; returns true when the 64-bit difference wrapped
sbb(a, b) == [x |-> U64Sub(a, b), carry |-> ~U64GE(a, b)]

\* Add() without its second +c correction
AddRunOneFix(a, b) ==
    LET s0 == adc(a, b)
        s1 == adc(s0.x, kPrimeSubC)
    IN  IF ~s0.carry THEN [val |-> s0.x, fixes |-> 0, carry |-> FALSE]
        ELSE [val |-> s1.x, fixes |-> 1, carry |-> s1.carry]

\* Add() with the number of +c corrections it applied and the carry of the last one
AddRun(a, b) ==
    LET s0 == adc(a, b)
        s1 == adc(s0.x, kPrimeSubC)
        s2 == adc(s1.x, kPrimeSubC)
    IN  IF ~s0.carry THEN [val |-> s0.x, fixes |-> 0, carry |-> FALSE]
        ELSE IF ~s1.carry THEN [val |-> s1.x, fixes |-> 1, carry |-> s1.carry]
        ELSE [val |-> s2.x, fixes |-> 2, carry |-> s2.carry]

Add(a, b) == AddRun(a, b).val

\* Subtract() without its second -c correction
SubtractRunOneFix(a, b) ==
    LET s0 == sbb(a, b)
        s1 == sbb(s0.x, kPrimeSubC)
    IN  IF ~s0.carry THEN [val |-> s0.x, fixes |-> 0, carry |-> FALSE]
        ELSE [val |-> s1.x, fixes |-> 1, carry |-> s1.carry]

\* Subtract() with the number of -c corrections it applied and the borrow of the last one
SubtractRun(a, b) ==
    LET s0 == sbb(a, b)
        s1 == sbb(s0.x, kPrimeSubC)
        s2 == sbb(s1.x, kPrimeSubC)
    IN  IF ~s0.carry THEN [val |-> s0.x, fixes |-> 0, carry |-> FALSE]
        ELSE IF ~s1.carry THEN [val |-> s1.x, fixes |-> 1, carry |-> s1.carry]
        ELSE [val |-> s2.x, fixes |-> 2, carry |-> s2.carry]

Subtract(a, b) == SubtractRun(a, b).val

\* The low and the high 32 bits of a uint64_t, as static_cast<uint32_t> gives
Lo32(v) == SubSeq(v, 1, 4) \o <<0, 0, 0, 0>>
Hi32(v) == SubSeq(v, 5, 8) \o <<0, 0, 0, 0>>

\* Emulate64x64to128 lines 71-80: the four 32x32->64 products
Emulate_Products(a, b) ==
    [p11 |-> U64Mul(Hi32(a), Hi32(b)),
     p01 |-> U64Mul(Lo32(a), Hi32(b)),
     p10 |-> U64Mul(Hi32(a), Lo32(b)),
     p00 |-> U64Mul(Lo32(a), Lo32(b))]

\* Lines 99-101: p10 + (uint32)(p00 >> 32) + (uint32)p01, as an exact sum
Emulate_Middle(p) == BigAdd(BigAdd(p.p10, Hi32(p.p00)), Lo32(p.p01))

\* Lines 115-117: p11 + (uint32)(middle >> 32) + last, as an exact sum
Emulate_High(p, middle, last) == BigAdd(BigAdd(p.p11, Hi32(middle)), last)

\* Does the exact sum need more than 64 bits?
Exceeds64(sum) == \E i \in 9..Len(sum) : sum[i] # 0

\* Lines 99-120: both accumulators wrap to 64 bits; the low word returned is
\* (middle << 32) | (uint32)p00
Emulate_Result(p, midSum, hiSum) ==
    [lo |-> U64Or(U64Shl(SubSeq(midSum, 1, 8), 32), Lo32(p.p00)),
     hi |-> SubSeq(hiSum, 1, 8),
     middleOverflow |-> Exceeds64(midSum),
     hiOverflow |-> Exceeds64(hiSum)]

Emulate_Finish(p, midSum, last) ==
    Emulate_Result(p, midSum, Emulate_High(p, SubSeq(midSum, 1, 8), last))

\* Emulate64x64to128 without the carry of p01 into the high part
Emulate64x64to128NoCross(a, b) ==
    CHOOSE r \in {Emulate_Finish(p, Emulate_Middle(p), U64Zero) :
                     p \in {Emulate_Products(a, b)}} : TRUE

\* Emulate64x64to128: r_hi and the returned low word
Emulate64x64to128(a, b) ==
    CHOOSE r \in {Emulate_Finish(p, Emulate_Middle(p), Hi32(p.p01)) :
                     p \in {Emulate_Products(a, b)}} : TRUE

\* r{hi,lo} = x * y, the full 128-bit product
CAT_MUL128(a, b) ==
    LET w == BigMul(a, b)
    IN  [lo |-> SubSeq(w, 1, 8), hi |-> SubSeq(w, 9, 16)]

\* Lines 238-241 with t = (a2 << 32) + a2
Multiply_AddTPlus(p_lo, a2) ==
    LET s0 == adc(p_lo, U64Add(U64Shl(a2, 32), a2))
        s1 == adc(s0.x, kPrimeSubC)
    IN  IF s0.carry THEN [x |-> s1.x, carry |-> TRUE, again |-> s1.carry]
        ELSE [x |-> s0.x, carry |-> FALSE, again |-> FALSE]

\* Lines 238-241: p_lo += t with t = (a2 << 32) - a2, then += c if that
\* carried; carry and again are what the two adc calls return
Multiply_AddT(p_lo, a2) ==
    LET s0 == adc(p_lo, U64Sub(U64Shl(a2, 32), a2))
        s1 == adc(s0.x, kPrimeSubC)
    IN  IF s0.carry THEN [x |-> s1.x, carry |-> TRUE, again |-> s1.carry]
        ELSE [x |-> s0.x, carry |-> FALSE, again |-> FALSE]

\* Multiply(): lo + a2 * (2^32 - 1) - a3, where hi = a3 * 2^32 + a2
Multiply(a, b) ==
    LET w  == CAT_MUL128(a, b)
        a2 == Pad(SubSeq(w.hi, 1, 4), 8)
        a3 == Pad(SubSeq(w.hi, 5, 8), 8)
    IN  sbb(Multiply_AddT(w.lo, a2).x, a3).x

-----------------------------------------------------------------------------
(* Inverse (solinas64.cpp) *)

\* Lines 40-52: reduce u, first division of p by u3; done when u = 0 mod p
InverseEntry(u) ==
    LET u3 == U64Rem(u, kPrime)
    IN  IF u3 = U64Zero
        THEN [done |-> TRUE, ret |-> U64Zero,
              u1 |-> U64One, u3 |-> u3, v1 |-> U64Zero, v3 |-> U64Zero]
        ELSE [done |-> FALSE, ret |-> U64Zero,
              u1 |-> U64One, u3 |-> u3,
              v1 |-> U64Div(kPrime, u3), v3 |-> U64Rem(kPrime, u3)]

\* The loop body returning v1 instead of p - v1 when u3 reaches 0 first
InverseIterNoNegate(s) ==
    IF s.v3 = U64Zero
    THEN [s EXCEPT !.done = TRUE,
                   !.ret = IF s.u3 = U64One THEN s.u1 ELSE U64Zero]
    ELSE LET qa  == U64Div(s.u3, s.v3)
             u3n == U64Rem(s.u3, s.v3)
             u1n == U64Add(s.u1, U64Mul(qa, s.v1))
         IN  IF u3n = U64Zero
             THEN [s EXCEPT !.done = TRUE, !.u3 = u3n, !.u1 = u1n,
                            !.ret = IF s.v3 = U64One THEN s.v1 ELSE U64Zero]
             ELSE LET qb == U64Div(s.v3, u3n)
                  IN  [s EXCEPT !.u3 = u3n, !.u1 = u1n,
                                !.v3 = U64Rem(s.v3, u3n),
                                !.v1 = U64Add(s.v1, U64Mul(qb, u1n))]

\* The loop body without the final  v3 %= u3  (line 69)
InverseIterKeepV3(s) ==
    IF s.v3 = U64Zero
    THEN [s EXCEPT !.done = TRUE,
                   !.ret = IF s.u3 = U64One THEN s.u1 ELSE U64Zero]
    ELSE LET qa  == U64Div(s.u3, s.v3)
             u3n == U64Rem(s.u3, s.v3)
             u1n == U64Add(s.u1, U64Mul(qa, s.v1))
         IN  IF u3n = U64Zero
             THEN [s EXCEPT !.done = TRUE, !.u3 = u3n, !.u1 = u1n,
                            !.ret = IF s.v3 = U64One THEN U64Sub(kPrime, s.v1)
                                    ELSE U64Zero]
             ELSE LET qb == U64Div(s.v3, u3n)
                  IN  [s EXCEPT !.u3 = u3n, !.u1 = u1n,
                                !.v1 = U64Add(s.v1, U64Mul(qb, u1n))]

\* Lines 56-70: one pass of the for (;;) body
InverseIter(s) ==
    IF s.v3 = U64Zero
    THEN [s EXCEPT !.done = TRUE,
                   !.ret = IF s.u3 = U64One THEN s.u1 ELSE U64Zero]
    ELSE LET qa  == U64Div(s.u3, s.v3)
             u3n == U64Rem(s.u3, s.v3)
             u1n == U64Add(s.u1, U64Mul(qa, s.v1))
         IN  IF u3n = U64Zero
             THEN [s EXCEPT !.done = TRUE, !.u3 = u3n, !.u1 = u1n,
                            !.ret = IF s.v3 = U64One THEN U64Sub(kPrime, s.v1)
                                    ELSE U64Zero]
             ELSE LET qb == U64Div(s.v3, u3n)
                  IN  [s EXCEPT !.u3 = u3n, !.u1 = u1n,
                                !.v3 = U64Rem(s.v3, u3n),
                                !.v1 = U64Add(s.v1, U64Mul(qb, u1n))]

\* Lines 42-43, 50-51: the divisors of the divisions and remainders taken
\* before the loop, on input u
InverseEntry_Divisors(u) ==
    LET u3 == U64Rem(u, kPrime)
    IN  {kPrime} \cup (IF u3 = U64Zero THEN {} ELSE {u3})

\* Lines 60-61, 68-69: the divisors of the divisions and remainders taken in
\* the pass of the loop body that starts in s
InverseIter_Divisors(s) ==
    IF s.v3 = U64Zero THEN {}
    ELSE LET u3n == U64Rem(s.u3, s.v3)
         IN  {s.v3} \cup (IF u3n = U64Zero THEN {} ELSE {u3n})

RECURSIVE InverseLoop(_)
InverseLoop(s) ==
    IF s.done THEN s.ret
    ELSE CHOOSE r \in {InverseLoop(nx) : nx \in {InverseIter(s)}} : TRUE

\* Inverse(u) as one call
Inverse(u) == InverseLoop(InverseEntry(u))

-----------------------------------------------------------------------------
(* Inputs *)

\* How far around each anchor value the operands are taken
Delta == 1

RECURSIVE U64Small(_)
\* The uint64_t with the small value n
U64Small(n) == IF n = 0 THEN U64Zero ELSE U64Add(U64Small(n - 1), U64One)

\* 0, 2^32, 2^48, 2^62, 2^63 and p: the values around which carries, borrows
\* and reductions change behaviour
Anchors == {U64Zero, U64Pow2(32), U64Pow2(48), U64Pow2(62), U64Pow2(63), kPrime}

\* Every anchor with its neighbours at distance <= Delta (wrapping at 2^64)
Samples ==
    UNION {{a} \cup {U64Add(a, U64Small(d)) : d \in 1..Delta}
               \cup {U64Sub(a, U64Small(d)) : d \in 1..Delta} : a \in Anchors}

\* Operands of Inverse: the samples and the three 64-bit mixing constants of
\* HashU64, whose Euclidean remainder sequences are long
MixConstants ==
    { <<21, 124, 74, 127, 185, 121, 55, 158>>,     \* 0x9e3779b97f4a7c15
      <<185, 229, 228, 28, 109, 71, 88, 191>>,     \* 0xbf58476d1ce4e5b9
      <<235, 17, 49, 19, 187, 73, 208, 148>> }     \* 0x94d049bb133111eb

InverseSamples == Samples \cup MixConstants

NoRes == [op |-> "none", val |-> U64Zero, fixes |-> 0, carry |-> FALSE]
NoInv == [done |-> FALSE, ret |-> U64Zero,
          u1 |-> U64Zero, u3 |-> U64Zero, v1 |-> U64Zero, v3 |-> U64Zero]

-----------------------------------------------------------------------------
(* Field operations on a pair of operands *)

NoWriter == [DataWritePtr |-> 0, Workspace |-> U64Zero, Available |-> 0]
NoReader == [Data |-> 0, Bytes |-> 0, Workspace |-> U64Zero, Available |-> 0]

\* No codec object exists
CodecIdle ==
    /\ mem = <<>>
    /\ writer = NoWriter
    /\ reader = NoReader
    /\ wrote = <<>>
    /\ got = <<>>
    /\ ret = 0

NoCall == [op |-> "none", ret |-> 0, opnds |-> <<>>]
NoBack == [out |-> <<>>, ret |-> 0, opnds |-> <<>>]

\* No bulk operation has been set up
RegionIdle ==
    /\ data = <<>>
    /\ coeff = U64Zero
    /\ out = <<>>
    /\ work = <<>>
    /\ call = NoCall
    /\ back = NoBack

NoRand == [State |-> <<U64Zero, U64Zero, U64Zero, U64Zero>>, Calls |-> 0]

\* No generator has been seeded
RandIdle == rand = NoRand

\* No field operation has been called
FieldIdle ==
    /\ x = U64Zero
    /\ y = U64Zero
    /\ res = NoRes
    /\ inv = NoInv

Init ==
    /\ pc = "idle"
    /\ x \in Samples
    /\ y \in Samples
    /\ res = NoRes
    /\ inv = NoInv
    /\ CodecIdle
    /\ RegionIdle
    /\ RandIdle

CallAdd ==
    /\ pc = "idle"
    /\ pc' = "done"
    /\ res' = [op |-> "Add"] @@ AddRun(x, y)
    /\ UNCHANGED <<x, y, inv>>
    /\ UNCHANGED codecVars
    /\ UNCHANGED regionVars
    /\ UNCHANGED randVars

CallSubtract ==
    /\ pc = "idle"
    /\ pc' = "done"
    /\ res' = [op |-> "Subtract"] @@ SubtractRun(x, y)
    /\ UNCHANGED <<x, y, inv>>
    /\ UNCHANGED codecVars
    /\ UNCHANGED regionVars
    /\ UNCHANGED randVars

CallMultiply ==
    /\ pc = "idle"
    /\ pc' = "done"
    /\ res' = [op |-> "Multiply", val |-> Multiply(x, y), fixes |-> 0, carry |-> FALSE]
    /\ UNCHANGED <<x, y, inv>>
    /\ UNCHANGED codecVars
    /\ UNCHANGED regionVars
    /\ UNCHANGED randVars

\* The portable multiply on the same operands
CallEmulate64x64to128 ==
    /\ pc = "idle"
    /\ pc' = "done"
    /\ \E r \in {Emulate64x64to128(x, y)} :
          res' = [op |-> "Emulate64x64to128", val |-> r.lo, hi |-> r.hi,
                  middleOverflow |-> r.middleOverflow, hiOverflow |-> r.hiOverflow,
                  fixes |-> 0, carry |-> FALSE]
    /\ UNCHANGED <<x, y, inv>>
    /\ UNCHANGED codecVars
    /\ UNCHANGED regionVars
    /\ UNCHANGED randVars

\* The third operands of the three-way products
TripleSamples == Anchors \cup {U64One}

\* The products of the commutativity and associativity test, for a third operand z
CallMultiplyTriple ==
    /\ pc = "idle"
    /\ pc' = "done"
    /\ \E z \in TripleSamples :
          res' = [op |-> "MultiplyTriple", z |-> z,
                  xy |-> Multiply(x, y), yx |-> Multiply(y, x),
                  r |-> Multiply(Multiply(z, y), x),
                  s |-> Multiply(Multiply(x, z), y),
                  t |-> Multiply(Multiply(x, y), z),
                  val |-> U64Zero, fixes |-> 0, carry |-> FALSE]
    /\ UNCHANGED <<x, y, inv>>
    /\ UNCHANGED codecVars
    /\ UNCHANGED regionVars
    /\ UNCHANGED randVars

\* The first reduction step of Multiply on a low word x and a2 = the low half of y
CallMultiply_AddT ==
    /\ pc = "idle"
    /\ pc' = "done"
    /\ \E r \in {Multiply_AddT(x, Lo32(y))} :
          res' = [op |-> "Multiply_AddT", a2 |-> Lo32(y),
                  val |-> r.x, carry |-> r.carry, again |-> r.again, fixes |-> 0]
    /\ UNCHANGED <<x, y, inv>>
    /\ UNCHANGED codecVars
    /\ UNCHANGED regionVars
    /\ UNCHANGED randVars

Next ==
    \/ CallAdd
    \/ CallSubtract
    \/ CallMultiply
    \/ CallEmulate64x64to128
    \/ CallMultiplyTriple
    \/ CallMultiply_AddT

Spec == Init /\ [][Next]_vars

-----------------------------------------------------------------------------
(* Inverse of one operand, one loop pass per step *)

InitInverse ==
    /\ pc = "idle"
    /\ x \in InverseSamples
    /\ y = U64Zero
    /\ res = NoRes
    /\ inv = NoInv
    /\ CodecIdle
    /\ RegionIdle
    /\ RandIdle

InverseBegin ==
    /\ pc = "idle"
    /\ \E s \in {InverseEntry(x)} :
           /\ inv' = s
           /\ pc' = IF s.done THEN "done" ELSE "loop"
           /\ res' = IF s.done
                     THEN [op |-> "Inverse", val |-> s.ret, fixes |-> 0, carry |-> FALSE]
                     ELSE res
    /\ UNCHANGED <<x, y>>
    /\ UNCHANGED codecVars
    /\ UNCHANGED regionVars
    /\ UNCHANGED randVars

InverseStep ==
    /\ pc = "loop"
    /\ \E s \in {InverseIter(inv)} :
           /\ inv' = s
           /\ pc' = IF s.done THEN "done" ELSE "loop"
           /\ res' = IF s.done
                     THEN [op |-> "Inverse", val |-> s.ret, fixes |-> 0, carry |-> FALSE]
                     ELSE res
    /\ UNCHANGED <<x, y>>
    /\ UNCHANGED codecVars
    /\ UNCHANGED regionVars
    /\ UNCHANGED randVars

NextInverse == InverseBegin \/ InverseStep

SpecInverse == InitInverse /\ [][NextInverse]_vars

\* The call runs on: a pass that can be taken is eventually taken
SpecInverseFair == SpecInverse /\ WF_vars(NextInverse)

-----------------------------------------------------------------------------
(* Memory reading and writing (solinas64.h, solinas64.cpp) *)

\* The byte at offset i (0-based) of buffer m
ByteAt(m, i) == m[i + 1]

\* Read 8 bytes in little-endian byte order
ReadU64_LE(m, ptr) == SubSeq(m, ptr + 1, ptr + 8)

\* Read 4 bytes in little-endian byte order, widened to 64 bits
ReadU32_LE(m, ptr) == SubSeq(m, ptr + 1, ptr + 4) \o <<0, 0, 0, 0>>

\* ReadBytes_LE returning only the low 32 bits for 5, 6 and 7 bytes
ReadBytes_LELow32(m, ptr, bytes) ==
    CASE bytes = 8 -> ReadU64_LE(m, ptr)
      [] bytes \in 4..7 -> ReadU32_LE(m, ptr)
      [] bytes \in 1..3 -> SubSeq(m, ptr + 1, ptr + bytes) \o Zeros(8 - bytes)
      [] OTHER -> U64Zero

\* Read between 0..8 bytes in little-endian byte order; 0 for any other count
ReadBytes_LE(m, ptr, bytes) ==
    CASE bytes = 8 -> ReadU64_LE(m, ptr)
      [] bytes \in 5..7 ->
            U64Or(SubSeq([i \in 1..8 |->
                             IF i \in 5..bytes THEN ByteAt(m, ptr + i - 1) ELSE 0], 1, 8),
                  ReadU32_LE(m, ptr))
      [] bytes = 4 -> ReadU32_LE(m, ptr)
      [] bytes \in 1..3 ->
            SubSeq(m, ptr + 1, ptr + bytes) \o Zeros(8 - bytes)
      [] OTHER -> U64Zero

\* Store bytes lo..hi (0-based) of value at ptr + lo .. ptr + hi
StoreBytes(m, ptr, lo, hi, value) ==
    SubSeq(m, 1, ptr + lo) \o SubSeq(value, lo + 1, hi + 1) \o SubSeq(m, ptr + hi + 2, Len(m))

\* Write 4 bytes in little-endian byte order
WriteU32_LE(m, ptr, value) == StoreBytes(m, ptr, 0, 3, value)

\* Write 8 bytes in little-endian byte order
WriteU64_LE(m, ptr, value) == StoreBytes(m, ptr, 0, 7, value)

\* WriteBytes_LE with a break after every case: one store per call
WriteBytes_LENoFallThrough(m, ptr, bytes, value) ==
    CASE bytes = 8 -> WriteU64_LE(m, ptr, value)
      [] bytes \in 5..7 -> StoreBytes(m, ptr, bytes - 1, bytes - 1, value)
      [] bytes = 4 -> WriteU32_LE(m, ptr, value)
      [] bytes \in 1..3 -> StoreBytes(m, ptr, bytes - 1, bytes - 1, value)
      [] OTHER -> m

\* Write between 0..8 bytes in little-endian byte order: the switch falls
\* through from case 7 to case 4 and from case 3 to case 1
WriteBytes_LE(m, ptr, bytes, value) ==
    CASE bytes = 8 -> WriteU64_LE(m, ptr, value)
      [] bytes \in 5..7 -> WriteU32_LE(StoreBytes(m, ptr, 4, bytes - 1, value), ptr, value)
      [] bytes = 4 -> WriteU32_LE(m, ptr, value)
      [] bytes \in 1..3 -> StoreBytes(m, ptr, 0, bytes - 1, value)
      [] OTHER -> m

-----------------------------------------------------------------------------
(* WordWriter and WordReader (solinas64.h) *)

\* The number of bytes that will be written for the given number of words
WordWriter_BytesNeeded(words) == (words * 61 + 7) \div 8

\* The number of words that can be read from a number of bytes
WordReader_WordCount(bytes) == (bytes * 8) \div 61

\* An unsigned (32-bit) value as 4 little-endian bytes; unsigned arithmetic
\* wraps modulo 2^32
U32FromInt(n) ==
    SubSeq([i \in 1..4 |-> (n \div Pow2(8 * (i - 1))) % Base], 1, 4)
U32Add(a, b) == SubSeq(BigAdd(a, b), 1, 4)
U32Mul(a, b) == SubSeq(BigMul(a, b), 1, 4)
U32Div(a, b) == BigDivMod(a, b).q

\* BytesNeeded() rounding down to whole bytes
WordWriter_BytesNeededU32Floor(words) ==
    U32Div(U32Mul(words, U32FromInt(61)), U32FromInt(8))

\* BytesNeeded() in unsigned arithmetic
WordWriter_BytesNeededU32(words) ==
    LET bits == U32Mul(words, U32FromInt(61))
    IN  U32Div(U32Add(bits, U32FromInt(7)), U32FromInt(8))

\* WordCount() in unsigned arithmetic
WordReader_WordCountU32(bytes) ==
    U32Div(U32Mul(bytes, U32FromInt(8)), U32FromInt(61))

WordWriter_BeginWrite == [DataWritePtr |-> 0, Workspace |-> U64Zero, Available |-> 0]

\* Write() losing the bits already buffered when the next word is added
WordWriter_WriteNoOr(w, m, word) ==
    LET workspace == U64Shl(word, w.Available)
        available == w.Available + 61
    IN  IF available >= 64
        THEN [mem |-> WriteU64_LE(m, w.DataWritePtr, workspace),
              writer |-> [DataWritePtr |-> w.DataWritePtr + 8,
                          Workspace |-> U64Shr(word, 61 - (available - 64)),
                          Available |-> available - 64]]
        ELSE [mem |-> m,
              writer |-> [DataWritePtr |-> w.DataWritePtr,
                          Workspace |-> workspace,
                          Available |-> available]]

\* Write() counting 60 bits for the word instead of 61
WordWriter_Write60(w, m, word) ==
    LET workspace == U64Or(w.Workspace, U64Shl(word, w.Available))
        available == w.Available + 60
    IN  IF available >= 64
        THEN [mem |-> WriteU64_LE(m, w.DataWritePtr, workspace),
              writer |-> [DataWritePtr |-> w.DataWritePtr + 8,
                          Workspace |-> U64Shr(word, 60 - (available - 64)),
                          Available |-> available - 64]]
        ELSE [mem |-> m,
              writer |-> [DataWritePtr |-> w.DataWritePtr,
                          Workspace |-> workspace,
                          Available |-> available]]

\* Write() keeping the whole word, not its remaining high bits, after a store
WordWriter_WriteKeepWord(w, m, word) ==
    LET workspace == U64Or(w.Workspace, U64Shl(word, w.Available))
        available == w.Available + 61
    IN  IF available >= 64
        THEN [mem |-> WriteU64_LE(m, w.DataWritePtr, workspace),
              writer |-> [DataWritePtr |-> w.DataWritePtr + 8,
                          Workspace |-> word,
                          Available |-> available - 64]]
        ELSE [mem |-> m,
              writer |-> [DataWritePtr |-> w.DataWritePtr,
                          Workspace |-> workspace,
                          Available |-> available]]

\* Write the next word: the new buffer contents and writer fields
WordWriter_Write(w, m, word) ==
    LET workspace == U64Or(w.Workspace, U64Shl(word, w.Available))
        available == w.Available + 61
    IN  IF available >= 64
        THEN [mem |-> WriteU64_LE(m, w.DataWritePtr, workspace),
              writer |-> [DataWritePtr |-> w.DataWritePtr + 8,
                          Workspace |-> U64Shr(word, 61 - (available - 64)),
                          Available |-> available - 64]]
        ELSE [mem |-> m,
              writer |-> [DataWritePtr |-> w.DataWritePtr,
                          Workspace |-> workspace,
                          Available |-> available]]

\* The shift counts Write() uses when called in writer state w: word << available,
\* and word >> (61 - available) with the reduced count after a store
WordWriter_Shifts(w) ==
    {w.Available} \cup
        (IF w.Available + 61 >= 64 THEN {61 - (w.Available + 61 - 64)} ELSE {})

\* The number of bytes Flush() passes to WriteBytes_LE
WordWriter_FinalBytes(w) == (w.Available + 7) \div 8

\* Flush storing the whole workspace word whatever the number of bits in it
WordWriter_FlushWholeWord(w, m) ==
    [mem |-> WriteU64_LE(m, w.DataWritePtr, w.Workspace),
     ret |-> w.DataWritePtr + 8]

\* Flush the output: the new buffer contents and the number of bytes written overall
WordWriter_Flush(w, m) ==
    LET finalBytes == (w.Available + 7) \div 8
    IN  [mem |-> WriteBytes_LE(m, w.DataWritePtr, finalBytes, w.Workspace),
         ret |-> w.DataWritePtr + finalBytes]

WordReader_BeginRead(bytes) ==
    [Data |-> 0, Bytes |-> bytes, Workspace |-> U64Zero, Available |-> 0]

\* Read the next word: take 61 bits from the workspace, refilled with up to
\* 8 more bytes of the buffer when it holds fewer than 61 bits
WordReader_Read(r, m) ==
    IF r.Available >= 61
    THEN [word |-> Low61(r.Workspace),
          reader |-> [r EXCEPT !.Workspace = U64Shr(r.Workspace, 61),
                               !.Available = r.Available - 61]]
    ELSE LET readBytes == IF r.Bytes >= 8 THEN 8 ELSE r.Bytes
             next      == ReadBytes_LE(m, r.Data, readBytes)
         IN  [word |-> Low61(U64Or(r.Workspace, U64Shl(next, r.Available))),
              reader |-> [Data |-> r.Data + readBytes,
                          Bytes |-> r.Bytes - readBytes,
                          Workspace |-> U64Shr(next, 61 - r.Available),
                          Available |-> r.Available + 8 * readBytes - 61]]

-----------------------------------------------------------------------------
(* Writing words and reading them back *)

\* The most words one writer is given
MaxWords == 3

\* 0, all ones, alternating bits from bit 0, alternating bits from bit 1
WordSamples ==
    { U64Zero,
      <<255, 255, 255, 255, 255, 255, 255, 31>>,
      <<85, 85, 85, 85, 85, 85, 85, 21>>,
      <<170, 170, 170, 170, 170, 170, 170, 10>> }

\* What the caller's buffer may hold before the writer runs
FillSamples == {0, 255}

\* The buffer holds BytesNeeded(MaxWords) bytes and one spare 64-bit word
InitWords ==
    /\ pc = "writing"
    /\ FieldIdle
    /\ RegionIdle
    /\ RandIdle
    /\ \E fill \in FillSamples :
          mem = [i \in 1..(WordWriter_BytesNeeded(MaxWords) + 8) |-> fill]
    /\ writer = WordWriter_BeginWrite
    /\ reader = NoReader
    /\ wrote = <<>>
    /\ got = <<>>
    /\ ret = 0

WordWrite ==
    /\ pc = "writing"
    /\ Len(wrote) < MaxWords
    /\ \E word \in WordSamples :
          LET w == WordWriter_Write(writer, mem, word)
          IN  /\ mem' = w.mem
              /\ writer' = w.writer
              /\ wrote' = Append(wrote, word)
    /\ UNCHANGED <<pc, reader, got, ret>>
    /\ UNCHANGED fieldVars
    /\ UNCHANGED regionVars
    /\ UNCHANGED randVars

\* Flush, then hand the written bytes to a reader
WordFlush ==
    /\ pc = "writing"
    /\ LET f == WordWriter_Flush(writer, mem)
       IN  /\ mem' = f.mem
           /\ ret' = f.ret
           /\ reader' = WordReader_BeginRead(f.ret)
    /\ pc' = "reading"
    /\ UNCHANGED <<writer, wrote, got>>
    /\ UNCHANGED fieldVars
    /\ UNCHANGED regionVars
    /\ UNCHANGED randVars

\* The caller reads WordCount(bytes) words
WordRead ==
    /\ pc = "reading"
    /\ Len(got) < WordReader_WordCount(ret)
    /\ LET r == WordReader_Read(reader, mem)
       IN  /\ reader' = r.reader
           /\ got' = Append(got, r.word)
    /\ UNCHANGED <<pc, mem, writer, wrote, ret>>
    /\ UNCHANGED fieldVars
    /\ UNCHANGED regionVars
    /\ UNCHANGED randVars

NextWords == WordWrite \/ WordFlush \/ WordRead

SpecWords == InitWords /\ [][NextWords]_vars

-----------------------------------------------------------------------------
(* ByteWriter (solinas64.h) *)

\* The word ByteWriter::Write compares with.  The sources use the name without
\* defining it; this is the value the specification gives for the 61-bit
\* packing, 0x1fffffff00000000.
ByteWriter_kAmbiguityMask == <<0, 0, 0, 0, 255, 255, 255, 31>>

\* The maximum number of words the ByteReader may produce for a number of bytes
ByteReader_MaxWords(bytes) == (bytes * 8 + ((bytes * 8) \div 61) + 60) \div 61

\* The maximum number of bytes written for the given number of words
ByteWriter_MaxBytesNeeded(words) == WordWriter_BytesNeeded(words)

ByteWriter_BeginWrite == [Writer |-> WordWriter_BeginWrite, Packed |-> FALSE]

\* The number of stream bits Write() counts for a word
ByteWriter_WordBits(word) == IF word = ByteWriter_kAmbiguityMask THEN 60 ELSE 61

\* The rest of Write() once word_bits is known
ByteWriter_Put(w, m, word, word_bits) ==
    LET workspace == U64Or(w.Writer.Workspace, U64Shl(word, w.Writer.Available))
        available == w.Writer.Available + word_bits
    IN  IF available >= 64
        THEN [mem |-> WriteU64_LE(m, w.Writer.DataWritePtr, workspace),
              writer |-> [Writer |-> [DataWritePtr |-> w.Writer.DataWritePtr + 8,
                                      Workspace |-> U64Shr(word, word_bits - (available - 64)),
                                      Available |-> available - 64],
                          Packed |-> w.Packed]]
        ELSE [mem |-> m,
              writer |-> [Writer |-> [DataWritePtr |-> w.Writer.DataWritePtr,
                                      Workspace |-> workspace,
                                      Available |-> available],
                          Packed |-> w.Packed]]

\* Write() counting 61 bits for every word
ByteWriter_WriteAlways61(w, m, word) == ByteWriter_Put(w, m, word, 61)

\* Write the next word
ByteWriter_Write(w, m, word) == ByteWriter_Put(w, m, word, ByteWriter_WordBits(word))

\* Flush the output: Writer.Flush()
ByteWriter_Flush(w, m) == WordWriter_Flush(w.Writer, m)

\* Words written: 0, 1, the ambiguity mask, all 61 ones, alternating bits from bit 1
ByteWordSamples ==
    { U64Zero,
      U64One,
      ByteWriter_kAmbiguityMask,
      <<255, 255, 255, 255, 255, 255, 255, 31>>,
      <<170, 170, 170, 170, 170, 170, 170, 10>> }

\* The buffer holds MaxBytesNeeded(MaxWords) bytes and one spare 64-bit word
InitByteWriter ==
    /\ pc = "writing"
    /\ FieldIdle
    /\ RegionIdle
    /\ RandIdle
    /\ \E fill \in FillSamples :
          mem = [i \in 1..(ByteWriter_MaxBytesNeeded(MaxWords) + 8) |-> fill]
    /\ writer = ByteWriter_BeginWrite
    /\ reader = NoReader
    /\ wrote = <<>>
    /\ got = <<>>
    /\ ret = 0

ByteWrite ==
    /\ pc = "writing"
    /\ Len(wrote) < MaxWords
    /\ \E word \in ByteWordSamples :
          \E w \in {ByteWriter_Write(writer, mem, word)} :
              /\ mem' = w.mem
              /\ writer' = w.writer
              /\ wrote' = Append(wrote, word)
    /\ UNCHANGED <<pc, reader, got, ret>>
    /\ UNCHANGED fieldVars
    /\ UNCHANGED regionVars
    /\ UNCHANGED randVars

ByteFlush ==
    /\ pc = "writing"
    /\ pc' = "flushed"
    /\ \E f \in {ByteWriter_Flush(writer, mem)} :
          /\ mem' = f.mem
          /\ ret' = f.ret
    /\ UNCHANGED <<writer, reader, wrote, got>>
    /\ UNCHANGED fieldVars
    /\ UNCHANGED regionVars
    /\ UNCHANGED randVars

NextByteWriter == ByteWrite \/ ByteFlush

SpecByteWriter == InitByteWriter /\ [][NextByteWriter]_vars

-----------------------------------------------------------------------------
(* Sizing a buffer for a word count, then counting the words it holds *)

\* The largest small word count
MaxCount == 48

\* How far around the largest word count whose bits fit the counts are taken
CountDelta == 2

\* The largest word count n with 61 * n + 7 < 2^32
LargestCount == Pad(BigDivMod(<<248, 255, 255, 255>>, <<61>>).q, 4)

\* 61 * n + 7 as a natural number is below 2^32
BitsFit(n) == BigLess(BigAdd(BigMul(n, <<61>>), <<7>>), <<0, 0, 0, 0, 1>>)

CountSamples ==
    {U32FromInt(k) : k \in 0..MaxCount}
        \cup {U32Add(LargestCount, U32FromInt(d)) : d \in 0..CountDelta}
        \cup {SubSeq(BigSub(LargestCount, U32FromInt(d)), 1, 4) : d \in 1..CountDelta}

InitCounts ==
    /\ pc = "idle"
    /\ x \in CountSamples
    /\ y = U64Zero
    /\ res = NoRes
    /\ inv = NoInv
    /\ CodecIdle
    /\ RegionIdle
    /\ RandIdle

\* bytes = WordWriter::BytesNeeded(x)
CallBytesNeeded ==
    /\ pc = "idle"
    /\ pc' = "sized"
    /\ res' = [op |-> "BytesNeeded", words |-> x,
               bytes |-> WordWriter_BytesNeededU32(x)]
    /\ UNCHANGED <<x, y, inv>>
    /\ UNCHANGED codecVars
    /\ UNCHANGED regionVars
    /\ UNCHANGED randVars

\* WordReader::WordCount(bytes)
CallWordCount ==
    /\ pc = "sized"
    /\ pc' = "counted"
    /\ res' = [op |-> "WordCount", words |-> res.words, bytes |-> res.bytes,
               val |-> WordReader_WordCountU32(res.bytes)]
    /\ UNCHANGED <<x, y, inv>>
    /\ UNCHANGED codecVars
    /\ UNCHANGED regionVars
    /\ UNCHANGED randVars

NextCounts == CallBytesNeeded \/ CallWordCount

SpecCounts == InitCounts /\ [][NextCounts]_vars

-----------------------------------------------------------------------------
(* A WordWriter part-way through a long stream *)

\* The most words already written when the writer is observed
MaxPrior == 64

RECURSIVE WriteRun(_, _, _)
\* k more Write(word) calls from buffer and writer st
WriteRun(st, word, k) ==
    IF k = 0 THEN st
    ELSE CHOOSE r \in {WriteRun(nx, word, k - 1) :
                          nx \in {WordWriter_Write(st.writer, st.mem, word)}} : TRUE

\* BeginWrite on a buffer of BytesNeeded(prior + 1) bytes and one spare word,
\* then prior calls of Write with the same word
InitStream ==
    /\ pc = "writing"
    /\ FieldIdle
    /\ RegionIdle
    /\ RandIdle
    /\ \E prior \in 0..MaxPrior, word \in WordSamples, fill \in FillSamples :
          \E st \in {WriteRun([mem |-> SubSeq([i \in 1..(WordWriter_BytesNeeded(prior + 1) + 8)
                                                  |-> fill],
                                              1, WordWriter_BytesNeeded(prior + 1) + 8),
                               writer |-> WordWriter_BeginWrite], word, prior)} :
              /\ mem = st.mem
              /\ writer = st.writer
              /\ wrote = [i \in 1..prior |-> word]
    /\ reader = NoReader
    /\ got = <<>>
    /\ ret = 0

\* One more Write
StreamWrite ==
    /\ pc = "writing"
    /\ pc' = "written"
    /\ \E word \in WordSamples :
          \E w \in {WordWriter_Write(writer, mem, word)} :
              /\ mem' = w.mem
              /\ writer' = w.writer
              /\ wrote' = Append(wrote, word)
    /\ UNCHANGED <<reader, got, ret>>
    /\ UNCHANGED fieldVars
    /\ UNCHANGED regionVars
    /\ UNCHANGED randVars

StreamFlush ==
    /\ pc \in {"writing", "written"}
    /\ pc' = "flushed"
    /\ \E f \in {WordWriter_Flush(writer, mem)} :
          /\ mem' = f.mem
          /\ ret' = f.ret
    /\ UNCHANGED <<writer, reader, wrote, got>>
    /\ UNCHANGED fieldVars
    /\ UNCHANGED regionVars
    /\ UNCHANGED randVars

NextStream == StreamWrite \/ StreamFlush

SpecStream == InitStream /\ [][NextStream]_vars

-----------------------------------------------------------------------------
(* AppDataReader: the 64-bit-word-with-overflow-bit packing of the bulk     *)
(* operations.  Each 8-byte input word whose bits 32..62 are all ones has  *)
(* bit 63 cleared and moved to an overflow bit stream; the stream is       *)
(* collected in a 64-bit workspace word that is stored to the workspace    *)
(* region whenever it holds 63 bits, and once more at the end.             *)

\* Bits 32..62
kAmbiguityMask == <<0, 0, 0, 0, 255, 255, 255, 127>>

\* Overflow bits per stored workspace word
kOverflowBits == 63

IsU64Ambiguous(w) == U64And(w, kAmbiguityMask) = kAmbiguityMask

\* 8 * ceil(bytes / 8)
RoundUp8(bytes) == ((bytes + 7) \div 8) * 8

\* Most overflow words a region of that many bytes can produce
MaxOverflowWords(bytes) == ((bytes \div 8) + kOverflowBits - 1) \div kOverflowBits

AppDataReader_GetWorkspaceBytes(bytes) == 8 * MaxOverflowWords(bytes)

AppDataReader_GetMaxOutputBytes(bytes) == RoundUp8(bytes) + 8 * MaxOverflowWords(bytes)

\* Reader fields: overflow bits collected so far, their number, words stored
AppDataReader_SetupWorkspace == [Workspace |-> U64Zero, Available |-> 0, Words |-> 0]

\* The next 8-byte word as a field element; wk is the workspace region
AppDataReader_ReadNext8Bytes(rd, wk, m, ptr) ==
    LET w == ReadU64_LE(m, ptr)
    IN  IF ~IsU64Ambiguous(w) THEN [word |-> w, rd |-> rd, work |-> wk]
        ELSE LET bits  == U64Or(rd.Workspace, U64Shl(U64Shr(w, 63), rd.Available))
                 avail == rd.Available + 1
             IN  IF avail >= kOverflowBits
                 THEN [word |-> U64And(w, U64Sub(U64Pow2(63), U64One)),
                       rd   |-> [Workspace |-> U64Zero, Available |-> 0,
                                 Words |-> rd.Words + 1],
                       work |-> WriteU64_LE(wk, 8 * rd.Words, bits)]
                 ELSE [word |-> U64And(w, U64Sub(U64Pow2(63), U64One)),
                       rd   |-> [rd EXCEPT !.Workspace = bits, !.Available = avail],
                       work |-> wk]

\* The last 1..7 bytes, zero-padded
AppDataReader_ReadFinalBytes(m, ptr, bytes) == ReadBytes_LE(m, ptr, bytes)

\* Store the overflow bits not stored yet; the number of stored words
AppDataReader_FlushAndGetWordCount(rd, wk) ==
    IF rd.Available > 0
    THEN [count |-> rd.Words + 1, work |-> WriteU64_LE(wk, 8 * rd.Words, rd.Workspace)]
    ELSE [count |-> rd.Words, work |-> wk]

-----------------------------------------------------------------------------
(* Bulk operations (solinas64.cpp) *)

\* The running state of a bulk call: where it is, reader, workspace region,
\* output buffer, data and output positions, bytes left, overflow loop
\* counter and limit, data operands passed to Multiply so far, the reader
\* calls made so far (function and data offset) and the output offsets stored to
RegionStart(bytes, wk, output) ==
    [at |-> "loop32", rd |-> AppDataReader_SetupWorkspace, work |-> wk, out |-> output,
     dptr |-> 0, optr |-> 0, left |-> bytes, i |-> 0, extraWordBytes |-> 0,
     opnds |-> <<>>, reads |-> <<>>, writes |-> <<>>]

\* The fast paths with the memcpy but without the memset after it
RegionFillNoPad(m, output, bytes, copy) ==
    (IF copy THEN SubSeq(m, 1, bytes) ELSE Zeros(RoundUp8(bytes)))
    \o SubSeq(output, (IF copy THEN bytes ELSE RoundUp8(bytes)) + 1, Len(output))

\* memset / memcpy of the fast paths: zero or copy, zero-padded to the rounded length
RegionFill(m, output, bytes, copy) ==
    (IF copy THEN SubSeq(m, 1, bytes) \o Zeros(RoundUp8(bytes) - bytes)
     ELSE Zeros(RoundUp8(bytes)))
    \o SubSeq(output, RoundUp8(bytes) + 1, Len(output))

\* A call of ReadNext8Bytes(data + ptr) in the log of reader calls
Read8At(ptr) == [fn |-> "ReadNext8Bytes", ptr |-> ptr]

\* ReadNext8Bytes by the reader that an earlier read r left behind
ReadNextAfter(r, m, ptr) == AppDataReader_ReadNext8Bytes(r.rd, r.work, m, ptr)

\* The end of a four-word pass: the reader after the fourth read, the four
\* words read and the four values x0..x3 to store
Region_Store32(st, r, words, x0, x1, x2, x3) ==
    [st EXCEPT !.rd = r.rd, !.work = r.work,
               !.out = SubSeq(st.out, 1, st.optr) \o x0 \o x1 \o x2 \o x3
                       \o SubSeq(st.out, st.optr + 33, Len(st.out)),
               !.dptr = st.dptr + 32, !.optr = st.optr + 32, !.left = st.left - 32,
               !.opnds = st.opnds \o words,
               !.reads = st.reads \o <<Read8At(st.dptr), Read8At(st.dptr + 8),
                                       Read8At(st.dptr + 16), Read8At(st.dptr + 24)>>,
               !.writes = st.writes \o <<st.optr, st.optr + 8, st.optr + 16, st.optr + 24>>]

\* The four-word pass storing x2 at output + 8 and x1 at output + 16
MultiplyRegion_Block32Swapped(st, m, cf) ==
    LET r0 == AppDataReader_ReadNext8Bytes(st.rd, st.work, m, st.dptr)
        r1 == ReadNextAfter(r0, m, st.dptr + 8)
        r2 == ReadNextAfter(r1, m, st.dptr + 16)
        r3 == ReadNextAfter(r2, m, st.dptr + 24)
    IN  Region_Store32(st, r3, <<r0.word, r1.word, r2.word, r3.word>>,
                       Multiply(cf, r0.word), Multiply(cf, r2.word),
                       Multiply(cf, r1.word), Multiply(cf, r3.word))

\* MultiplyRegion, lines 175-192: four words per pass
MultiplyRegion_Block32(st, m, cf) ==
    LET r0 == AppDataReader_ReadNext8Bytes(st.rd, st.work, m, st.dptr)
        r1 == ReadNextAfter(r0, m, st.dptr + 8)
        r2 == ReadNextAfter(r1, m, st.dptr + 16)
        r3 == ReadNextAfter(r2, m, st.dptr + 24)
    IN  Region_Store32(st, r3, <<r0.word, r1.word, r2.word, r3.word>>,
                       Multiply(cf, r0.word), Multiply(cf, r1.word),
                       Multiply(cf, r2.word), Multiply(cf, r3.word))

\* The 8-byte pass handing the raw input word to Multiply
MultiplyRegion_Word8Raw(st, m, cf) ==
    LET r0 == AppDataReader_ReadNext8Bytes(st.rd, st.work, m, st.dptr)
        w0 == ReadU64_LE(m, st.dptr)
    IN  [st EXCEPT !.rd = r0.rd, !.work = r0.work,
                   !.out = WriteU64_LE(st.out, st.optr, Multiply(cf, w0)),
                   !.dptr = st.dptr + 8, !.optr = st.optr + 8, !.left = st.left - 8,
                   !.opnds = Append(st.opnds, w0),
                   !.reads = Append(st.reads, Read8At(st.dptr)),
                   !.writes = Append(st.writes, st.optr)]

\* MultiplyRegion, lines 194-203: one word per pass
MultiplyRegion_Word8(st, m, cf) ==
    LET r0 == AppDataReader_ReadNext8Bytes(st.rd, st.work, m, st.dptr)
    IN  [st EXCEPT !.rd = r0.rd, !.work = r0.work,
                   !.out = WriteU64_LE(st.out, st.optr, Multiply(cf, r0.word)),
                   !.dptr = st.dptr + 8, !.optr = st.optr + 8, !.left = st.left - 8,
                   !.opnds = Append(st.opnds, r0.word),
                   !.reads = Append(st.reads, Read8At(st.dptr)),
                   !.writes = Append(st.writes, st.optr)]

\* MultiplyRegion, lines 205-210: the last 1..7 bytes
MultiplyRegion_Tail(st, m, cf) ==
    IF st.left > 0
    THEN LET w0 == AppDataReader_ReadFinalBytes(m, st.dptr, st.left)
         IN  [st EXCEPT !.out = WriteU64_LE(st.out, st.optr, Multiply(cf, w0)),
                        !.optr = st.optr + 8,
                        !.opnds = Append(st.opnds, w0),
                        !.reads = Append(st.reads, [fn |-> "ReadFinalBytes", ptr |-> st.dptr]),
                        !.writes = Append(st.writes, st.optr)]
    ELSE st

\* Lines 212-214: finalize the overflow bits
Region_Flush(st) ==
    LET f == AppDataReader_FlushAndGetWordCount(st.rd, st.work)
    IN  [st EXCEPT !.work = f.work, !.extraWordBytes = f.count * 8, !.i = 0]

\* MultiplyRegion, lines 217-224: one overflow word, read back from the workspace
MultiplyRegion_Overflow(st, cf) ==
    LET w0 == ReadU64_LE(st.work, st.i)
    IN  [st EXCEPT !.out = WriteU64_LE(st.out, st.optr + st.i, Multiply(cf, w0)),
                   !.i = st.i + 8,
                   !.opnds = Append(st.opnds, w0),
                   !.writes = Append(st.writes, st.optr + st.i)]

\* One pass of a loop of MultiplyRegion, or the move to its next statement
MultiplyRegion_Step(st, m, cf) ==
    CASE st.at = "loop32" ->
            IF st.left >= 32 THEN MultiplyRegion_Block32(st, m, cf)
            ELSE [st EXCEPT !.at = "loop8"]
      [] st.at = "loop8" ->
            IF st.left >= 8 THEN MultiplyRegion_Word8(st, m, cf)
            ELSE [st EXCEPT !.at = "tail"]
      [] st.at = "tail" ->
            [Region_Flush(MultiplyRegion_Tail(st, m, cf)) EXCEPT !.at = "overflow"]
      [] st.at = "overflow" ->
            IF st.i < st.extraWordBytes THEN MultiplyRegion_Overflow(st, cf)
            ELSE [st EXCEPT !.at = "return"]

RECURSIVE MultiplyRegion_Run(_, _, _)
\* The passes in order, each on the state the one before left
MultiplyRegion_Run(st, m, cf) ==
    IF st.at = "return" THEN st
    ELSE CHOOSE end \in {MultiplyRegion_Run(nx, m, cf) :
                            nx \in {MultiplyRegion_Step(st, m, cf)}} : TRUE

\* The return statement without the overflow bytes
MultiplyRegionNoExtra(m, bytes, cf, wk, output) ==
    IF cf = U64Zero \/ cf = U64One
    THEN [ret |-> RoundUp8(bytes), out |-> RegionFill(m, output, bytes, cf = U64One),
          work |-> wk, opnds |-> <<>>, reads |-> <<>>, writes |-> <<>>]
    ELSE LET calls == {[ret |-> RoundUp8(bytes), out |-> end.out,
                        work |-> end.work, opnds |-> end.opnds,
                        reads |-> end.reads, writes |-> end.writes] :
                          end \in {MultiplyRegion_Run(RegionStart(bytes, wk, output), m, cf)}}
         IN  CHOOSE r \in calls : TRUE

\* MultiplyRegion(data, bytes, coeff, workspace, output): the return value,
\* the buffers afterwards and the data operands it passed to Multiply
MultiplyRegion(m, bytes, cf, wk, output) ==
    IF cf = U64Zero \/ cf = U64One
    THEN [ret |-> RoundUp8(bytes), out |-> RegionFill(m, output, bytes, cf = U64One),
          work |-> wk, opnds |-> <<>>, reads |-> <<>>, writes |-> <<>>]
    ELSE LET calls == {[ret |-> RoundUp8(bytes) + end.extraWordBytes, out |-> end.out,
                        work |-> end.work, opnds |-> end.opnds,
                        reads |-> end.reads, writes |-> end.writes] :
                          end \in {MultiplyRegion_Run(RegionStart(bytes, wk, output), m, cf)}}
         IN  CHOOSE r \in calls : TRUE

\* MultiplyAddRegion, lines 249-260: four words per pass, each added to the
\* output word at its own place
MultiplyAddRegion_Block32(st, m, cf) ==
    LET r0 == AppDataReader_ReadNext8Bytes(st.rd, st.work, m, st.dptr)
        r1 == ReadNextAfter(r0, m, st.dptr + 8)
        r2 == ReadNextAfter(r1, m, st.dptr + 16)
        r3 == ReadNextAfter(r2, m, st.dptr + 24)
    IN  Region_Store32(st, r3, <<r0.word, r1.word, r2.word, r3.word>>,
                       Add(Multiply(cf, r0.word), ReadU64_LE(st.out, st.optr)),
                       Add(Multiply(cf, r1.word), ReadU64_LE(st.out, st.optr + 8)),
                       Add(Multiply(cf, r2.word), ReadU64_LE(st.out, st.optr + 16)),
                       Add(Multiply(cf, r3.word), ReadU64_LE(st.out, st.optr + 24)))

\* MultiplyAddRegion, lines 262-271: one word per pass
MultiplyAddRegion_Word8(st, m, cf) ==
    LET r0 == AppDataReader_ReadNext8Bytes(st.rd, st.work, m, st.dptr)
        x0 == Add(Multiply(cf, r0.word), ReadU64_LE(st.out, st.optr))
    IN  [st EXCEPT !.rd = r0.rd, !.work = r0.work,
                   !.out = WriteU64_LE(st.out, st.optr, x0),
                   !.dptr = st.dptr + 8, !.optr = st.optr + 8, !.left = st.left - 8,
                   !.opnds = Append(st.opnds, r0.word),
                   !.reads = Append(st.reads, Read8At(st.dptr)),
                   !.writes = Append(st.writes, st.optr)]

\* MultiplyAddRegion, lines 273-279: the last 1..7 bytes
MultiplyAddRegion_Tail(st, m, cf) ==
    IF st.left > 0
    THEN LET w0 == AppDataReader_ReadFinalBytes(m, st.dptr, st.left)
             x0 == Add(Multiply(cf, w0), ReadU64_LE(st.out, st.optr))
         IN  [st EXCEPT !.out = WriteU64_LE(st.out, st.optr, x0),
                        !.optr = st.optr + 8,
                        !.opnds = Append(st.opnds, w0),
                        !.reads = Append(st.reads, [fn |-> "ReadFinalBytes", ptr |-> st.dptr]),
                        !.writes = Append(st.writes, st.optr)]
    ELSE st

\* MultiplyAddRegion, lines 286-296: one overflow word, added to the output
MultiplyAddRegion_Overflow(st, cf) ==
    LET w0 == ReadU64_LE(st.work, st.i)
        x0 == ReadU64_LE(st.out, st.optr + st.i)
    IN  [st EXCEPT !.out = WriteU64_LE(st.out, st.optr + st.i, Add(Multiply(cf, w0), x0)),
                   !.i = st.i + 8,
                   !.opnds = Append(st.opnds, w0),
                   !.writes = Append(st.writes, st.optr + st.i)]

\* One pass of a loop of MultiplyAddRegion, or the move to its next statement
MultiplyAddRegion_Step(st, m, cf) ==
    CASE st.at = "loop32" ->
            IF st.left >= 32 THEN MultiplyAddRegion_Block32(st, m, cf)
            ELSE [st EXCEPT !.at = "loop8"]
      [] st.at = "loop8" ->
            IF st.left >= 8 THEN MultiplyAddRegion_Word8(st, m, cf)
            ELSE [st EXCEPT !.at = "tail"]
      [] st.at = "tail" ->
            [Region_Flush(MultiplyAddRegion_Tail(st, m, cf)) EXCEPT !.at = "overflow"]
      [] st.at = "overflow" ->
            IF st.i < st.extraWordBytes THEN MultiplyAddRegion_Overflow(st, cf)
            ELSE [st EXCEPT !.at = "return"]

RECURSIVE MultiplyAddRegion_Run(_, _, _)
MultiplyAddRegion_Run(st, m, cf) ==
    IF st.at = "return" THEN st
    ELSE CHOOSE end \in {MultiplyAddRegion_Run(nx, m, cf) :
                            nx \in {MultiplyAddRegion_Step(st, m, cf)}} : TRUE

\* MultiplyAddRegion without its fast path
MultiplyAddRegionNoFast(m, bytes, cf, wk, output) ==
    LET calls == {[ret |-> RoundUp8(bytes) + end.extraWordBytes, out |-> end.out,
                   work |-> end.work, opnds |-> end.opnds,
                        reads |-> end.reads, writes |-> end.writes] :
                     end \in {MultiplyAddRegion_Run(RegionStart(bytes, wk, output), m, cf)}}
    IN  CHOOSE r \in calls : TRUE

\* MultiplyAddRegion(data, bytes, coeff, workspace, output)
MultiplyAddRegion(m, bytes, cf, wk, output) ==
    IF cf = U64Zero
    THEN [ret |-> RoundUp8(bytes), out |-> output, work |-> wk, opnds |-> <<>>, reads |-> <<>>, writes |-> <<>>]
    ELSE LET calls == {[ret |-> RoundUp8(bytes) + end.extraWordBytes, out |-> end.out,
                        work |-> end.work, opnds |-> end.opnds,
                        reads |-> end.reads, writes |-> end.writes] :
                          end \in {MultiplyAddRegion_Run(RegionStart(bytes, wk, output), m, cf)}}
         IN  CHOOSE r \in calls : TRUE

-----------------------------------------------------------------------------
(* Bulk operations under test: a region of whole words and a short tail *)

\* Longest short region, in words; the 4-word pass needs 4
MaxRunWords == 4

\* Words around the ambiguity test: 1, all ones, the mask itself, the
\* largest word below the mask with bit 63 set, and the modulus
RegionWords ==
    { U64One,
      [i \in 1..8 |-> 255],
      kAmbiguityMask,
      <<255, 255, 255, 255, 254, 255, 255, 255>>,
      kPrime }

\* Bytes after the last whole word
TailSamples == {0, 3, 7}

\* Short regions of every pair of words, and regions of all-ones words long
\* enough to fill one workspace word and to begin a second
RegionShapes ==
    [w1 : RegionWords, w2 : RegionWords, n : 0..MaxRunWords, t : TailSamples]
    \cup [w1 : {[i \in 1..8 |-> 255]}, w2 : {[i \in 1..8 |-> 255]},
          n : {kOverflowBits, kOverflowBits + 1}, t : {0, 7}]

\* Coefficients: both fast paths, a small one, and p - 1
CoeffSamples == {U64Zero, U64One, U64Small(2), U64Sub(kPrime, U64One)}

\* n words alternating w1, w2, then t bytes of 255
RegionData(w1, w2, n, t) ==
    SubSeq([i \in 1..(8 * n + t) |->
               IF i > 8 * n THEN 255
               ELSE IF (((i - 1) \div 8) % 2) = 0 THEN w1[((i - 1) % 8) + 1]
                    ELSE w2[((i - 1) % 8) + 1]], 1, 8 * n + t)

InitRegion ==
    /\ pc = "ready"
    /\ FieldIdle
    /\ CodecIdle
    /\ RandIdle
    /\ \E s \in RegionShapes : data = RegionData(s.w1, s.w2, s.n, s.t)
    /\ coeff \in CoeffSamples
    /\ \E fill \in FillSamples :
          out = [i \in 1..AppDataReader_GetMaxOutputBytes(Len(data)) |-> fill]
    /\ work = Zeros(AppDataReader_GetWorkspaceBytes(Len(data)))
    /\ call = NoCall
    /\ back = NoBack

CallMultiplyRegion ==
    /\ pc = "ready"
    /\ pc' = "multiplied"
    /\ \E r \in {MultiplyRegion(data, Len(data), coeff, work, out)} :
          /\ out' = r.out
          /\ work' = r.work
          /\ call' = [op |-> "MultiplyRegion", ret |-> r.ret, opnds |-> r.opnds,
                   reads |-> r.reads, writes |-> r.writes]
    /\ UNCHANGED <<data, coeff, back>>
    /\ UNCHANGED fieldVars
    /\ UNCHANGED codecVars
    /\ UNCHANGED randVars

CallMultiplyAddRegion ==
    /\ pc = "ready"
    /\ pc' = "accumulated"
    /\ \E r \in {MultiplyAddRegion(data, Len(data), coeff, work, out)} :
          /\ out' = r.out
          /\ work' = r.work
          /\ call' = [op |-> "MultiplyAddRegion", ret |-> r.ret, opnds |-> r.opnds,
                   reads |-> r.reads, writes |-> r.writes]
    /\ UNCHANGED <<data, coeff, back>>
    /\ UNCHANGED fieldVars
    /\ UNCHANGED codecVars
    /\ UNCHANGED randVars

\* MultiplyRegion again, on the bytes the first call returned, with the
\* inverse coefficient, into a fresh buffer
CallInverseRegion ==
    /\ pc = "multiplied"
    /\ coeff # U64Zero
    /\ pc' = "restored"
    /\ \E r \in {MultiplyRegion(out, call.ret, Inverse(coeff),
                               Zeros(AppDataReader_GetWorkspaceBytes(call.ret)),
                               Zeros(AppDataReader_GetMaxOutputBytes(call.ret)))} :
          back' = [out |-> r.out, ret |-> r.ret, opnds |-> r.opnds,
                   reads |-> r.reads, writes |-> r.writes]
    /\ UNCHANGED <<data, coeff, out, work, call>>
    /\ UNCHANGED fieldVars
    /\ UNCHANGED codecVars
    /\ UNCHANGED randVars

NextRegion == CallMultiplyRegion \/ CallMultiplyAddRegion \/ CallInverseRegion

SpecRegion == InitRegion /\ [][NextRegion]_vars

-----------------------------------------------------------------------------
(* IsAmbiguous, Random and HashToNonzeroFp (solinas64.h, solinas64.cpp) *)

RECURSIVE XorBits(_, _, _)
\* Bitwise exclusive or of the low n bits of two bytes
XorBits(a, b, n) ==
    IF n = 0 THEN 0
    ELSE ((a + b) % 2) + 2 * XorBits(a \div 2, b \div 2, n - 1)

U64Xor(a, b) == SubSeq([i \in 1..8 |-> XorBits(a[i], b[i], 8)], 1, 8)

\* Values larger than this cannot be represented in the field
kAmbiguityMax == <<0, 0, 0, 0, 255, 255, 255, 255>>

\* The comparison with >= in place of >
IsAmbiguousGE(u64_word) == ~BigLess(u64_word, kAmbiguityMax)

\* True if the word needs an extra bit to represent it
IsAmbiguous(u64_word) == BigLess(kAmbiguityMax, u64_word)

CAT_ROL64(a, bits) == U64Or(U64Shl(a, bits), U64Shr(a, 64 - bits))

\* word -= (word + 1) >> 61
DropAllOnes61(word) == U64Sub(word, U64Shr(U64Add(word, U64One), 61))

\* word += (word - 1) >> 63
LiftZero(word) == U64Add(word, U64Shr(U64Sub(word, U64One), 63))

\* ConvertRandToFp without taking the high bits first
ConvertRandToFpNoShift(word) == DropAllOnes61(word)

\* Random::ConvertRandToFp
ConvertRandToFp(word) == DropAllOnes61(U64Shr(word, 3))

\* ConvertRandToNonzeroFp without its last statement
ConvertRandToNonzeroFpNoLift(word) == ConvertRandToFp(word)

\* Random::ConvertRandToNonzeroFp
ConvertRandToNonzeroFp(word) == LiftZero(ConvertRandToFp(word))

\* z ^ (z >> s)
XorShift(z, s) == U64Xor(z, U64Shr(z, s))

\* Hash a seed into a nonzero field value
HashToNonzeroFp(word) ==
    LiftZero(DropAllOnes61(U64Shr(
        U64Mul(XorShift(U64Add(word, <<21, 124, 74, 127, 185, 121, 55, 158>>), 30),
               <<185, 229, 228, 28, 109, 71, 88, 191>>), 3)))

\* splitmix64
HashU64(v) ==
    XorShift(U64Mul(XorShift(U64Mul(
        XorShift(U64Add(v, <<21, 124, 74, 127, 185, 121, 55, 158>>), 30),
        <<185, 229, 228, 28, 109, 71, 88, 191>>), 27),
        <<235, 17, 49, 19, 187, 73, 208, 148>>), 31)

\* Random::Seed: State[0..3] = HashU64 applied 1..4 times
Random_Seed(seed) ==
    LET h0 == {HashU64(seed)}
        h1 == {HashU64(h) : h \in h0}
        h2 == {HashU64(h) : h \in h1}
        h3 == {HashU64(h) : h \in h2}
    IN  CHOOSE st \in {<<a, b, c, d>> : a \in h0, b \in h1, c \in h2, d \in h3} : TRUE

\* The state after the xor statements of Next(), s3 not yet rotated
Random_Mix(s0, s1, s2, s3, t) ==
    LET s2a == U64Xor(s2, s0)
        s3a == U64Xor(s3, s1)
    IN  <<U64Xor(s0, s3a), U64Xor(s1, s2a), U64Xor(s2a, t), CAT_ROL64(s3a, 45)>>

\* Random::Next: the result and the new State
Random_Next(st) ==
    [result |-> U64Add(st[1], st[4]),
     State  |-> Random_Mix(st[1], st[2], st[3], st[4], U64Shl(st[2], 17))]

-----------------------------------------------------------------------------
(* Single-word functions and the generator under test *)

\* The most Next() calls made on one generator
MaxNext == 3

InitRandom ==
    /\ pc = "idle"
    /\ x \in Samples
    /\ y = U64Zero
    /\ res = NoRes
    /\ inv = NoInv
    /\ CodecIdle
    /\ RegionIdle
    /\ RandIdle

CallIsAmbiguous ==
    /\ pc = "idle"
    /\ pc' = "done"
    /\ res' = [op |-> "IsAmbiguous", flag |-> IsAmbiguous(x)]
    /\ UNCHANGED <<x, y, inv>>
    /\ UNCHANGED codecVars
    /\ UNCHANGED regionVars
    /\ UNCHANGED randVars

\* ConvertRandToFp(x), and ConvertRandToFp applied to what it returned
CallConvertRandToFp ==
    /\ pc = "idle"
    /\ pc' = "done"
    /\ \E v \in {ConvertRandToFp(x)} :
          res' = [op |-> "ConvertRandToFp", val |-> v, again |-> ConvertRandToFp(v)]
    /\ UNCHANGED <<x, y, inv>>
    /\ UNCHANGED codecVars
    /\ UNCHANGED regionVars
    /\ UNCHANGED randVars

CallConvertRandToNonzeroFp ==
    /\ pc = "idle"
    /\ pc' = "done"
    /\ res' = [op |-> "ConvertRandToNonzeroFp", val |-> ConvertRandToNonzeroFp(x)]
    /\ UNCHANGED <<x, y, inv>>
    /\ UNCHANGED codecVars
    /\ UNCHANGED regionVars
    /\ UNCHANGED randVars

CallHashToNonzeroFp ==
    /\ pc = "idle"
    /\ pc' = "done"
    /\ res' = [op |-> "HashToNonzeroFp", val |-> HashToNonzeroFp(x)]
    /\ UNCHANGED <<x, y, inv>>
    /\ UNCHANGED codecVars
    /\ UNCHANGED regionVars
    /\ UNCHANGED randVars

RandomSeed ==
    /\ pc = "idle"
    /\ pc' = "seeded"
    /\ rand' = [State |-> Random_Seed(x), Calls |-> 0]
    /\ UNCHANGED fieldVars
    /\ UNCHANGED codecVars
    /\ UNCHANGED regionVars

RandomNextFp ==
    /\ pc = "seeded"
    /\ rand.Calls < MaxNext
    /\ \E n \in {Random_Next(rand.State)} :
          /\ rand' = [State |-> n.State, Calls |-> rand.Calls + 1]
          /\ res' = [op |-> "NextFp", word |-> n.result, val |-> ConvertRandToFp(n.result)]
    /\ UNCHANGED <<pc, x, y, inv>>
    /\ UNCHANGED codecVars
    /\ UNCHANGED regionVars

RandomNextNonzeroFp ==
    /\ pc = "seeded"
    /\ rand.Calls < MaxNext
    /\ \E n \in {Random_Next(rand.State)} :
          /\ rand' = [State |-> n.State, Calls |-> rand.Calls + 1]
          /\ res' = [op |-> "NextNonzeroFp", word |-> n.result,
                     val |-> ConvertRandToNonzeroFp(n.result)]
    /\ UNCHANGED <<pc, x, y, inv>>
    /\ UNCHANGED codecVars
    /\ UNCHANGED regionVars

NextRandom ==
    \/ CallIsAmbiguous
    \/ CallConvertRandToFp
    \/ CallConvertRandToNonzeroFp
    \/ CallHashToNonzeroFp
    \/ RandomSeed
    \/ RandomNextFp
    \/ RandomNextNonzeroFp

SpecRandom == InitRandom /\ [][NextRandom]_vars

-----------------------------------------------------------------------------
(* ReadBytes_LE and WriteBytes_LE on a caller's buffer *)

\* The largest byte count passed; 9 and above are unsupported counts
MaxBytes == 9

\* Buffers of 10 bytes: all 0, all 255, and ten different bytes
ByteBuffers ==
    {[i \in 1..10 |-> fill] : fill \in FillSamples} \cup {[i \in 1..10 |-> 16 * i + i]}

\* Values written: 0, all ones, eight different bytes, p
ByteValues == {U64Zero, [i \in 1..8 |-> 255], [i \in 1..8 |-> 160 + i], kPrime}

\* Where in the buffer the call points
PtrSamples == {0, 1}

InitBytes ==
    /\ pc = "idle"
    /\ x \in ByteValues
    /\ y = U64Zero
    /\ res = NoRes
    /\ inv = NoInv
    /\ mem \in ByteBuffers
    /\ writer = NoWriter
    /\ reader = NoReader
    /\ wrote = <<>>
    /\ got = <<>>
    /\ ret = 0
    /\ RegionIdle
    /\ RandIdle

CallReadBytes_LE ==
    /\ pc = "idle"
    /\ pc' = "done"
    /\ \E ptr \in PtrSamples, bytes \in 0..MaxBytes :
          res' = [op |-> "ReadBytes_LE", ptr |-> ptr, bytes |-> bytes,
                  val |-> ReadBytes_LE(mem, ptr, bytes)]
    /\ UNCHANGED <<x, y, inv>>
    /\ UNCHANGED codecVars
    /\ UNCHANGED regionVars
    /\ UNCHANGED randVars

\* WriteBytes_LE(data + ptr, bytes, x), then ReadBytes_LE(data + ptr, bytes)
CallWriteBytes_LE ==
    /\ pc = "idle"
    /\ pc' = "done"
    /\ \E ptr \in PtrSamples, bytes \in 0..MaxBytes :
          \E m \in {WriteBytes_LE(mem, ptr, bytes, x)} :
              /\ mem' = m
              /\ res' = [op |-> "WriteBytes_LE", ptr |-> ptr, bytes |-> bytes,
                         before |-> mem, val |-> ReadBytes_LE(m, ptr, bytes)]
    /\ UNCHANGED <<x, y, inv>>
    /\ UNCHANGED <<writer, reader, wrote, got, ret>>
    /\ UNCHANGED regionVars
    /\ UNCHANGED randVars

NextBytes == CallReadBytes_LE \/ CallWriteBytes_LE

SpecBytes == InitBytes /\ [][NextBytes]_vars

-----------------------------------------------------------------------------
(* Reference values *)

\* The natural number a reduced modulo p
ModP(a) == BigMod(a, kPrime)

\* a = b modulo p
CongruentP(a, b) == ModP(a) = ModP(b)

-----------------------------------------------------------------------------
(* Properties of the field operations *)

TwoPow62 == U64Pow2(62)

\* C1: for all 64-bit x and y, Multiply(x, y) is congruent to the integer
\* product x * y modulo p.
C1_MultiplyCongruent ==
    res.op = "Multiply" => CongruentP(res.val, BigMul(x, y))

\* C2: for all 64-bit x and y, Add(x, y) is congruent to x + y modulo p; at
\* most two +c corrections are applied and the last one never carries out.
C2_AddCongruent ==
    res.op = "Add" =>
        /\ CongruentP(res.val, BigAdd(x, y))
        /\ res.fixes <= 2
        /\ ~res.carry

\* An addition that needed both corrections has returned
C2_Witness == res.op = "Add" /\ res.fixes = 2

\* C3: Inverse(x) returns 0 if and only if x mod p = 0, and otherwise a value
\* y with 0 < y < p and x * y congruent to 1 modulo p; Inverse(0) = 0,
\* Inverse(1) = 1 and Inverse(p - 1) = p - 1.
C3_InverseCorrect ==
    (pc = "done" /\ res.op = "Inverse") =>
        /\ (res.val = U64Zero) <=> (ModP(x) = U64Zero)
        /\ res.val # U64Zero =>
              /\ BigLess(res.val, kPrime)
              /\ ModP(BigMul(x, res.val)) = U64One
        /\ x = U64Zero => res.val = U64Zero
        /\ x = U64One => res.val = U64One
        /\ x = U64Sub(kPrime, U64One) => res.val = U64Sub(kPrime, U64One)

\* Inverse has returned an inverse found by the loop for an input above p
C3_Witness ==
    /\ pc = "done" /\ res.op = "Inverse"
    /\ res.val # U64Zero /\ res.val # U64One
    /\ BigLess(kPrime, x)

\* C9: for all x, y < 2^62, the value returned by Multiply(x, y) is < 2^62.
C9_MultiplyBelow2p62 ==
    (res.op = "Multiply" /\ BigLess(x, TwoPow62) /\ BigLess(y, TwoPow62)) =>
        BigLess(res.val, TwoPow62)

\* C10: for all 64-bit x and y, Subtract(x, y) is congruent to x - y modulo p;
\* at most two -c corrections are applied and the last one never borrows.
C10_SubtractCongruent ==
    res.op = "Subtract" =>
        /\ CongruentP(BigAdd(res.val, y), x)
        /\ res.fixes <= 2
        /\ ~res.carry

\* A subtraction that needed both corrections has returned
C10_Witness == res.op = "Subtract" /\ res.fixes = 2

-----------------------------------------------------------------------------
(* Properties of the word codec *)

\* Bit k of the buffer taken as a little-endian bit stream
StreamBit(m, k) == BitOf(m, k)

\* C6: after BeginWrite, n calls of Write with words < 2^61 and Flush, the
\* output bytes taken as a little-endian bit stream hold word j in bits
\* [61j, 61j + 61), and successive Read calls return the written words in order.
C6_WordRoundTrip ==
    pc = "reading" =>
        /\ \A j \in 1..Len(wrote) : \A k \in 0..60 :
              StreamBit(mem, 61 * (j - 1) + k) = BitOf(wrote[j], k)
        /\ Len(got) <= Len(wrote)
        /\ \A j \in 1..Len(got) : got[j] = wrote[j]

\* All of MaxWords written words, the last one not zero, have been read back
C6_Witness ==
    /\ pc = "reading"
    /\ Len(wrote) = MaxWords
    /\ Len(got) = Len(wrote)
    /\ wrote[Len(wrote)] # U64Zero

\* C20: after BeginWrite and n calls of Write, Flush returns BytesNeeded(n) =
\* ceil(61 n / 8), and no Write and no Flush changes a byte at an offset >=
\* BytesNeeded of the words written so far (which is at most BytesNeeded(n)).
C20_FlushBytesNeeded ==
    [][pc = "writing" =>
          /\ Len(mem') = Len(mem)
          /\ \A i \in 1..Len(mem) :
                i > WordWriter_BytesNeeded(Len(wrote')) => mem'[i] = mem[i]
          /\ pc' = "reading" =>
                /\ ret' = WordWriter_BytesNeeded(Len(wrote))
                /\ ret' = (61 * Len(wrote) + 7) \div 8]_vars

\* Three words, the last one 0, have been flushed into a buffer of all-ones
\* bytes: 23 bytes returned, byte 22 written, byte 23 and the last byte as before
C20_Witness ==
    /\ pc = "reading"
    /\ Len(wrote) = 3
    /\ wrote[3] = U64Zero
    /\ ret = 23
    /\ mem[23] = 0
    /\ mem[24] = 255
    /\ mem[Len(mem)] = 255

-----------------------------------------------------------------------------
(* Bulk operations: claims *)

\* The whole 8-byte words of a region that the packing finds ambiguous
AmbiguousWords(m) ==
    Cardinality({k \in 0..((Len(m) \div 8) - 1) : IsU64Ambiguous(ReadU64_LE(m, 8 * k))})

\* The overflow words the packing produces for a region: one per 63 ambiguous words
OverflowWords(m) == (AmbiguousWords(m) + kOverflowBits - 1) \div kOverflowBits

\* C4: MultiplyRegion with coeff in [1, p) followed by MultiplyRegion with
\* Inverse(coeff) gives back the first n bytes of the data.
C4_RegionRoundTrip ==
    pc = "restored" => SubSeq(back.out, 1, Len(data)) = data

\* C7 as stated: for every coeff in [0, p) both bulk operations return
\* ceil(n/8)*8 plus 8 bytes per overflow word of the data.
C7_ReturnAllCoeffs ==
    pc \in {"multiplied", "accumulated"} =>
        call.ret = RoundUp8(Len(data)) + 8 * OverflowWords(data)

\* The call took the packing path, not a fast path
TookCodecPath ==
    \/ call.op = "MultiplyRegion" /\ coeff # U64Zero /\ coeff # U64One
    \/ call.op = "MultiplyAddRegion" /\ coeff # U64Zero

\* C7 amended: on the packing path (coeff >= 2 for MultiplyRegion, coeff # 0
\* for MultiplyAddRegion) the return value is ceil(n/8)*8 plus 8 bytes per
\* overflow word; on a fast path it is ceil(n/8)*8 whatever the data.
C7_ReturnCodecPath ==
    pc \in {"multiplied", "accumulated"} =>
        IF TookCodecPath
        THEN call.ret = RoundUp8(Len(data)) + 8 * OverflowWords(data)
        ELSE call.ret = RoundUp8(Len(data))

\* A packing-path call of MultiplyRegion whose data filled one workspace word
\* and began a second
C7_Witness ==
    /\ pc = "multiplied"
    /\ TookCodecPath
    /\ OverflowWords(data) = 2
    /\ call.ret = RoundUp8(Len(data)) + 16

\* C8: every data operand the bulk operations pass to Multiply, whether a
\* whole word, the zero-padded tail or an overflow word, is below p.
C8_OperandsInField ==
    /\ \A i \in 1..Len(call.opnds) : BigLess(call.opnds[i], kPrime)
    /\ \A i \in 1..Len(back.opnds) : BigLess(back.opnds[i], kPrime)

\* A call that read an all-ones word, a tail and an overflow word, and passed
\* the word on with bit 63 cleared
C8_Witness ==
    /\ pc \in {"multiplied", "accumulated"}
    /\ TookCodecPath
    /\ Len(data) >= 8
    /\ Len(data) % 8 # 0
    /\ IsU64Ambiguous(ReadU64_LE(data, 0))
    /\ BitOf(ReadU64_LE(data, 0), 63) = 1
    /\ Len(call.opnds) = (Len(data) \div 8) + 1 + OverflowWords(data)
    /\ BitOf(call.opnds[1], 63) = 0
    /\ OverflowWords(data) >= 1

\* C11: MultiplyRegion with coeff = 1 copies the n data bytes and zero-fills
\* up to ceil(n/8)*8, so MultiplyRegion with coeff = 1 and then with
\* Inverse(1) gives back the first n bytes of the data.
C11_CopyRoundTrip ==
    (pc \in {"multiplied", "restored"} /\ coeff = U64One) =>
        /\ SubSeq(out, 1, Len(data)) = data
        /\ \A i \in (Len(data) + 1)..RoundUp8(Len(data)) : out[i] = 0
        /\ call.ret = RoundUp8(Len(data))
        /\ pc = "restored" => SubSeq(back.out, 1, Len(data)) = data

\* Both passes with coeff = 1 over whole words and a 3-byte tail, into an
\* output buffer that held 255 everywhere
C11_Witness ==
    /\ pc = "restored"
    /\ coeff = U64One
    /\ Len(data) > 8
    /\ Len(data) % 8 = 3
    /\ out[Len(out)] = 255
    /\ SubSeq(back.out, 1, Len(data)) = data

\* C12: with coeff = 0 MultiplyRegion zeroes exactly the first ceil(n/8)*8
\* output bytes, MultiplyAddRegion leaves the output as it was, both return
\* ceil(n/8)*8 and neither changes the workspace or the data.
C12_ZeroCoeffFrame ==
    [][(pc = "ready" /\ coeff = U64Zero /\ pc' \in {"multiplied", "accumulated"}) =>
          /\ call'.ret = RoundUp8(Len(data))
          /\ work' = work
          /\ data' = data
          /\ pc' = "multiplied" =>
                out' = Zeros(RoundUp8(Len(data)))
                       \o SubSeq(out, RoundUp8(Len(data)) + 1, Len(out))
          /\ pc' = "accumulated" => out' = out]_vars

\* MultiplyRegion with coeff = 0 has zeroed the rounded length of an output
\* buffer that held 255 everywhere and is longer than that
C12_Witness ==
    /\ pc = "multiplied"
    /\ coeff = U64Zero
    /\ Len(data) % 8 # 0
    /\ Len(out) > RoundUp8(Len(data))
    /\ out[1] = 0
    /\ out[RoundUp8(Len(data))] = 0
    /\ out[Len(out)] = 255

-----------------------------------------------------------------------------
(* Bulk operations: the loops *)

\* The same call with every whole word taken by the one-word loop: the state
\* at the return statement
MultiplyRegion_WordLoop(m, bytes, cf, wk, output) ==
    MultiplyRegion_Run([RegionStart(bytes, wk, output) EXCEPT !.at = "loop8"], m, cf)

MultiplyAddRegion_WordLoop(m, bytes, cf, wk, output) ==
    MultiplyAddRegion_Run([RegionStart(bytes, wk, output) EXCEPT !.at = "loop8"], m, cf)

\* The primary words of a region of that many bytes: whole words and a tail word
PrimaryWords(bytes) == (bytes + 7) \div 8

\* One reader call per primary word, in order: ReadNext8Bytes for each whole
\* word, then ReadFinalBytes if bytes remain
ReadsInOrder(bytes) ==
    [i \in 1..PrimaryWords(bytes) |->
        IF i <= bytes \div 8 THEN Read8At(8 * (i - 1))
        ELSE [fn |-> "ReadFinalBytes", ptr |-> 8 * (i - 1)]]

\* A call that runs the loops is being made
LoopCall ==
    /\ pc = "ready"
    /\ \/ pc' = "multiplied" /\ coeff # U64Zero /\ coeff # U64One
       \/ pc' = "accumulated" /\ coeff # U64Zero

\* C24: for coeff not in {0, 1} (MultiplyRegion) or coeff # 0
\* (MultiplyAddRegion) and every byte count n, the loops call the reader once
\* per primary word in increasing order (floor(n/8) ReadNext8Bytes calls, then
\* ReadFinalBytes iff n mod 8 # 0), store output word i once, as
\* Multiply(coeff, r_i) or Add(Multiply(coeff, r_i), old output word i), and
\* leave what a one-word-at-a-time loop leaves.
C24_LoopsAsWordLoop ==
    [][LoopCall =>
          /\ call'.reads = ReadsInOrder(Len(data))
          /\ \A i \in 1..Len(call'.writes) : call'.writes[i] = 8 * (i - 1)
          /\ Len(call'.writes) = PrimaryWords(Len(data)) + (call'.ret - RoundUp8(Len(data))) \div 8
          /\ \A i \in 1..PrimaryWords(Len(data)) :
                ReadU64_LE(out', 8 * (i - 1)) =
                    IF pc' = "multiplied" THEN Multiply(coeff, call'.opnds[i])
                    ELSE Add(Multiply(coeff, call'.opnds[i]), ReadU64_LE(out, 8 * (i - 1)))
          /\ \E ref \in {IF pc' = "multiplied"
                         THEN MultiplyRegion_WordLoop(data, Len(data), coeff, work, out)
                         ELSE MultiplyAddRegion_WordLoop(data, Len(data), coeff, work, out)} :
                /\ out' = ref.out
                /\ work' = ref.work
                /\ call'.opnds = ref.opnds
                /\ call'.ret = RoundUp8(Len(data)) + ref.extraWordBytes]_vars

\* A region of 63 words and 7 bytes has gone through fifteen four-word
\* passes, three one-word passes, the tail and one overflow word
C24_Witness ==
    /\ pc = "accumulated"
    /\ coeff = U64Sub(kPrime, U64One)
    /\ Len(data) = 63 * 8 + 7
    /\ Len(call.reads) = 64
    /\ call.reads[63] = Read8At(62 * 8)
    /\ call.reads[64] = [fn |-> "ReadFinalBytes", ptr |-> 63 * 8]
    /\ Len(call.writes) = 65
    /\ call.ret = 64 * 8 + 8

\* The output buffer holds zeros only
ZeroOutput == \A i \in 1..Len(out) : out[i] = 0

\* C25 as stated: for every data region, byte count and coeff in [0, p),
\* MultiplyAddRegion on an all-zero output buffer leaves the same output bytes
\* and returns the same value as MultiplyRegion on the same data and coeff.
C25_AddOnZeroIsMultiply ==
    [][(pc = "ready" /\ pc' = "accumulated" /\ ZeroOutput) =>
          \E r \in {MultiplyRegion(data, Len(data), coeff, work, out)} :
              /\ out' = r.out
              /\ call'.ret = r.ret]_vars

\* C25 amended: the two agree when coeff # 1 or no whole word of the data is
\* ambiguous; with coeff = 1 and an ambiguous word MultiplyRegion copies the
\* data and returns the rounded length, while MultiplyAddRegion packs it and
\* returns 8 bytes more for each overflow word.
C25_AddOnZeroIsMultiplyButCopy ==
    [][(pc = "ready" /\ pc' = "accumulated" /\ ZeroOutput) =>
          \E r \in {MultiplyRegion(data, Len(data), coeff, work, out)} :
              IF coeff # U64One \/ AmbiguousWords(data) = 0
              THEN /\ out' = r.out
                   /\ call'.ret = r.ret
              ELSE /\ r.ret = RoundUp8(Len(data))
                   /\ call'.ret = r.ret + 8 * OverflowWords(data)
                   /\ call'.ret > r.ret]_vars

\* MultiplyAddRegion with coeff = p - 1 has filled a zero buffer from data
\* with an ambiguous word, a tail and an overflow word
C25_Witness ==
    /\ pc = "accumulated"
    /\ coeff = U64Sub(kPrime, U64One)
    /\ AmbiguousWords(data) > 0
    /\ Len(data) % 8 # 0
    /\ call.ret = RoundUp8(Len(data)) + 8
    /\ out[1] # 0
    /\ out[Len(out)] = 0

-----------------------------------------------------------------------------
(* Single-word functions: claims *)

\* 2^64 - 2^32: the least word whose high 32 bits are all ones
HighOnes == U64Sub(U64Zero, U64Pow2(32))

\* C13 as stated: IsAmbiguous(w) is true exactly when w >= 2^64 - 2^32, that
\* is, when the high 32 bits of w are all ones.
C13_AmbiguousIffHighOnes ==
    res.op = "IsAmbiguous" => (res.flag <=> U64GE(x, HighOnes))

\* C13 amended: IsAmbiguous(w) is true exactly when w >= p = 2^64 - 2^32 + 1,
\* that is, when the high 32 bits of w are all ones and the low 32 bits are
\* not all zero; it is false for w = 2^64 - 2^32 = p - 1.
C13_AmbiguousIffAtLeastP ==
    res.op = "IsAmbiguous" =>
        /\ res.flag <=> U64GE(x, kPrime)
        /\ res.flag <=> (SubSeq(x, 5, 8) = <<255, 255, 255, 255>>
                         /\ SubSeq(x, 1, 4) # <<0, 0, 0, 0>>)

\* IsAmbiguous has answered for the word p - 1, whose high 32 bits are all
\* ones, and said no
C13_Witness ==
    /\ res.op = "IsAmbiguous"
    /\ x = HighOnes
    /\ ~res.flag

\* PartialReduce is called by the tests and described by the specification but
\* defined nowhere in the sources.  These are the values a PartialReduce(v)
\* may return under its description: r < 2^62 with r mod p = v mod p.  As
\* 2^62 < p every such r is its own residue, so r can only be v mod p.
PartialReduceResults(v) ==
    IF BigLess(ModP(v), TwoPow62) THEN {ModP(v)} ELSE {}

\* C14 as stated: for every 64-bit x, PartialReduce(x) is below 2^62 and
\* congruent to x modulo p; that is, some such value exists for every x.
C14_PartialReduceBelow2p62 ==
    PartialReduceResults(x) # {}

\* C15: ConvertRandToFp and NextFp return a value in [0, p);
\* ConvertRandToNonzeroFp, HashToNonzeroFp and NextNonzeroFp one in [1, p).
C15_RandInField ==
    /\ res.op \in {"ConvertRandToFp", "NextFp"} => BigLess(res.val, kPrime)
    /\ res.op \in {"ConvertRandToNonzeroFp", "HashToNonzeroFp", "NextNonzeroFp"} =>
          /\ BigLess(res.val, kPrime)
          /\ res.val # U64Zero

\* ConvertRandToNonzeroFp has turned a word whose high 61 bits are zero into 1
C15_Witness ==
    /\ res.op = "ConvertRandToNonzeroFp"
    /\ U64Shr(x, 3) = U64Zero
    /\ res.val = U64One

\* C16 as stated: ConvertRandToFp(ConvertRandToFp(w)) = ConvertRandToFp(w).
C16_ConvertIdempotent ==
    res.op = "ConvertRandToFp" => res.again = res.val

\* C16 amended: ConvertRandToFp(ConvertRandToFp(w)) = ConvertRandToFp(w) >> 3
\* for every w; it equals ConvertRandToFp(w) only when that is 0, that is,
\* when w < 8.
C16_ConvertShiftsAgain ==
    res.op = "ConvertRandToFp" =>
        /\ res.again = U64Shr(res.val, 3)
        /\ res.again = res.val <=> BigLess(x, U64Small(8))

\* The second application changed the value: all-ones gives 2^61 - 2, then 2^58 - 1
C16_Witness ==
    /\ res.op = "ConvertRandToFp"
    /\ x = [i \in 1..8 |-> 255]
    /\ res.val = U64Sub(U64Pow2(61), U64Small(2))
    /\ res.again = U64Sub(U64Pow2(58), U64One)

-----------------------------------------------------------------------------
(* The portable 64x64->128 multiply: claims *)

U64Max == [i \in 1..8 |-> 255]

\* C17: for all 64-bit x and y, Emulate64x64to128 returns lo and sets r_hi
\* with r_hi * 2^64 + lo = x * y exactly, and neither the middle accumulator
\* nor r_hi overflows 64 bits; (2^64 - 1)^2 gives hi = 0xfffffffffffffffe,
\* lo = 1.
C17_EmulateExact ==
    res.op = "Emulate64x64to128" =>
        /\ res.val \o res.hi = BigMul(x, y)
        /\ ~res.middleOverflow
        /\ ~res.hiOverflow
        /\ (x = U64Max /\ y = U64Max) =>
              /\ res.hi = <<254, 255, 255, 255, 255, 255, 255, 255>>
              /\ res.val = U64One

\* The largest operands have been multiplied
C17_Witness ==
    /\ res.op = "Emulate64x64to128"
    /\ x = U64Max
    /\ y = U64Max
    /\ res.hi = <<254, 255, 255, 255, 255, 255, 255, 255>>
    /\ res.val = U64One

-----------------------------------------------------------------------------
(* ReadBytes_LE and WriteBytes_LE: claims *)

\* C18: for n in 1..8, ReadBytes_LE(data, n) is the little-endian value of
\* data[0..n-1] zero-extended to 64 bits, which is ReadU64_LE(data) with all
\* but its low n bytes cleared; for n = 0 and every n > 8 it is 0.
C18_ReadBytesValue ==
    res.op = "ReadBytes_LE" =>
        IF res.bytes \in 1..8
        THEN /\ Len(res.val) = 8
             /\ BigEq(res.val, SubSeq(mem, res.ptr + 1, res.ptr + res.bytes))
             /\ res.val = [i \in 1..8 |->
                              IF i <= res.bytes THEN ReadU64_LE(mem, res.ptr)[i] ELSE 0]
        ELSE res.val = U64Zero

\* Seven bytes have been read from the middle of a buffer of different bytes
C18_Witness ==
    /\ res.op = "ReadBytes_LE"
    /\ res.bytes = 7
    /\ res.ptr = 1
    /\ mem[1] = 17
    /\ res.val = <<34, 51, 68, 85, 102, 119, 136, 0>>

\* C19: for n in 0..8, WriteBytes_LE(data, n, v) sets data[i] to byte i of v
\* for i < n and leaves every other byte as it was; for n = 0 and n > 8 no
\* byte changes; ReadBytes_LE(data, n) afterwards is v mod 2^(8n).
C19_WriteBytesFrame ==
    res.op = "WriteBytes_LE" =>
        /\ Len(mem) = Len(res.before)
        /\ res.bytes \in 0..8 =>
              /\ \A i \in 0..(res.bytes - 1) : mem[res.ptr + i + 1] = x[i + 1]
              /\ \A j \in 1..Len(mem) :
                    (j <= res.ptr \/ j > res.ptr + res.bytes) => mem[j] = res.before[j]
              /\ res.val = [i \in 1..8 |-> IF i <= res.bytes THEN x[i] ELSE 0]
        /\ (res.bytes = 0 \/ res.bytes > 8) => mem = res.before

\* Six bytes of a value of different bytes have been written into the middle
\* of an all-ones buffer
C19_Witness ==
    /\ res.op = "WriteBytes_LE"
    /\ res.bytes = 6
    /\ res.ptr = 1
    /\ mem = <<255, 161, 162, 163, 164, 165, 166, 255, 255, 255>>
    /\ res.val = <<161, 162, 163, 164, 165, 166, 0, 0>>

-----------------------------------------------------------------------------
(* The writer in a long stream: claims *)

\* C21 as stated: in every state reachable by BeginWrite and any number of
\* Write calls, the byte count Flush passes to WriteBytes_LE,
\* (Available + 7) / 8, is in 0..7.
C21_FlushAtMost7 ==
    pc \in {"writing", "written"} => WordWriter_FinalBytes(writer) \in 0..7

\* C21 amended: after n Write calls Available = 61 n mod 64 and the byte
\* count Flush passes to WriteBytes_LE is in 0..8; it is 8 exactly when
\* 61 n mod 64 > 56, as after the first Write (Available = 61).
C21_FlushAtMost8 ==
    pc \in {"writing", "written"} =>
        /\ writer.Available = (61 * Len(wrote)) % 64
        /\ WordWriter_FinalBytes(writer) \in 0..8
        /\ WordWriter_FinalBytes(writer) = 8 <=> (61 * Len(wrote)) % 64 > 56

\* One word written and flushed: eight trailing bytes, none after them
C21_Witness ==
    /\ pc = "flushed"
    /\ Len(wrote) = 1
    /\ writer.Available = 61
    /\ WordWriter_FinalBytes(writer) = 8
    /\ ret = 8
    /\ wrote[1] = <<255, 255, 255, 255, 255, 255, 255, 31>>
    /\ mem[8] = 31

\* C27: in every state reachable by BeginWrite and Write calls with words
\* below 2^61, 0 <= Available <= 63, Workspace < 2^Available, and every shift
\* count the next Write would use is in 0..63.
C27_WriterInvariant ==
    pc \in {"writing", "written"} =>
        /\ writer.Available \in 0..63
        /\ BigLess(writer.Workspace, U64Pow2(writer.Available))
        /\ \A sh \in WordWriter_Shifts(writer) : sh \in 0..63

\* The 43rd Write has left 63 bits, all ones, in the workspace; the next Write
\* would shift by 63 and by 1
C27_Witness ==
    /\ pc = "written"
    /\ Len(wrote) = 43
    /\ writer.Available = 63
    /\ writer.Workspace = <<255, 255, 255, 255, 255, 255, 255, 127>>
    /\ WordWriter_Shifts(writer) = {63, 1}

-----------------------------------------------------------------------------
(* ByteWriter: claims *)

\* How many of the first j written words are the ambiguity mask
MaskWrites(j) ==
    Cardinality({i \in 1..j : wrote[i] = ByteWriter_kAmbiguityMask})

\* C22: after BeginWrite and n calls of ByteWriter::Write, k of them with the
\* ambiguity mask, Flush returns ceil((61 n - k) / 8), which is at most
\* MaxBytesNeeded(n); so for an input of b bytes, whose words number at most
\* MaxWords(b), it is at most MaxBytesNeeded(MaxWords(b)).
C22_ByteFlushBytes ==
    pc = "flushed" =>
        /\ ret = (61 * Len(wrote) - MaskWrites(Len(wrote)) + 7) \div 8
        /\ ret <= ByteWriter_MaxBytesNeeded(Len(wrote))
        /\ \A b \in 0..(8 * MaxWords) :
              Len(wrote) <= ByteReader_MaxWords(b) =>
                  ret <= ByteWriter_MaxBytesNeeded(ByteReader_MaxWords(b))

\* Two masks written and flushed: 120 bits, 15 bytes, one fewer than MaxBytesNeeded(2)
C22_Witness ==
    /\ pc = "flushed"
    /\ Len(wrote) = 2
    /\ MaskWrites(2) = 2
    /\ ret = 15
    /\ ByteWriter_MaxBytesNeeded(2) = 16

\* C26: a Write of the ambiguity mask contributes exactly 60 bits: Available
\* advances by 60 modulo 64, and the stream bit right after those 60 bits is
\* bit 0 of the next written word, whatever the mask word holds.
C26_MaskIs60Bits ==
    pc = "flushed" =>
        /\ writer.Writer.Available = (61 * Len(wrote) - MaskWrites(Len(wrote))) % 64
        /\ \A j \in 1..(Len(wrote) - 1) :
              wrote[j] = ByteWriter_kAmbiguityMask =>
                  StreamBit(mem, 61 * (j - 1) - MaskWrites(j - 1) + 60) = BitOf(wrote[j + 1], 0)

-----------------------------------------------------------------------------
(* Multiply: further claims *)

\* C23: for all x, y, z < 2^62, Multiply(x, y) = Multiply(y, x), and
\* Multiply(Multiply(z, y), x), Multiply(Multiply(x, z), y) and
\* Multiply(Multiply(x, y), z) are congruent modulo p.
C23_MultiplyAssociative ==
    (/\ res.op = "MultiplyTriple"
     /\ BigLess(x, TwoPow62)
     /\ BigLess(y, TwoPow62)
     /\ BigLess(res.z, TwoPow62)) =>
        /\ res.xy = res.yx
        /\ CongruentP(res.r, res.s)
        /\ CongruentP(res.s, res.t)

\* C30: when adding t = a2 * (2^32 - 1) to the low word carries out of 64
\* bits, the +c correction that follows does not carry again; the first carry
\* is that of the exact sum.
C30_AddTOneCarry ==
    res.op = "Multiply_AddT" =>
        /\ res.carry <=> Exceeds64(BigAdd(x, BigMul(SubSeq(res.a2, 1, 4), kPrimeSubC)))
        /\ res.carry => ~res.again

\* The largest low word and the largest a2: the sum carried and the correction did not
C30_Witness ==
    /\ res.op = "Multiply_AddT"
    /\ x = U64Max
    /\ res.a2 = kPrimeSubC
    /\ res.carry
    /\ ~res.again

-----------------------------------------------------------------------------
(* Inverse: termination *)

\* v3 < u3 where the loop body starts
InverseLoopHead == pc = "loop" => BigLess(inv.v3, inv.u3)

\* A pass of the loop body that starts with v3 /= 0 takes u3 below v3, and
\* then, unless u3 reached 0, v3 below the new u3; the call returns only from
\* a pass that finds v3 = 0 or takes u3 to 0
InversePassDecreases ==
    pc = "loop" =>
        /\ inv.v3 # U64Zero =>
              /\ BigLess(inv'.u3, inv.v3)
              /\ BigLess(inv'.u3, inv.u3)
              /\ pc' = "loop" => /\ BigLess(inv'.v3, inv'.u3)
                                  /\ BigLess(inv'.v3, inv.v3)
        /\ pc' = "done" <=> (inv.v3 = U64Zero \/ inv'.u3 = U64Zero)

\* No division or remainder of the call has the divisor 0
InverseDivisorsNonzero ==
    /\ pc = "idle" => U64Zero \notin InverseEntry_Divisors(x)
    /\ pc = "loop" => U64Zero \notin InverseIter_Divisors(inv)

\* C28: Inverse terminates for every 64-bit input: in its loop u3 and v3
\* alternately strictly decrease until one of them is 0, and no division or
\* remainder in the function is taken with a zero divisor
C28_InverseTerminates ==
    /\ <>(pc = "done")
    /\ [](InverseLoopHead /\ InverseDivisorsNonzero)
    /\ [][InversePassDecreases]_vars

\* The call on 0x94d049bb133111eb has returned the inverse, after 19 passes
\* of the loop, with u3 or v3 at 0
C28_Witness ==
    /\ pc = "done"
    /\ x = <<235, 17, 49, 19, 187, 73, 208, 148>>
    /\ inv.done
    /\ inv.u3 = U64Zero \/ inv.v3 = U64Zero
    /\ res.op = "Inverse"
    /\ res.val = <<64, 223, 98, 141, 160, 57, 174, 176>>
    /\ U64Rem(Multiply(x, res.val), kPrime) = U64One

-----------------------------------------------------------------------------
(* Word and byte counts: claims *)

\* C29: WordReader::WordCount(WordWriter::BytesNeeded(n)) = n for every word
\* count n whose bit count 61 * n + 7 fits in an unsigned 32-bit integer; for
\* the small counts both values are the ones computed without a width
C29_WordCountOfBytesNeeded ==
    pc = "counted" /\ BitsFit(x) =>
        /\ res.op = "WordCount"
        /\ res.words = x
        /\ res.val = x
        /\ \A k \in 0..MaxCount :
              x = U32FromInt(k) =>
                  /\ res.bytes = U32FromInt(WordWriter_BytesNeeded(k))
                  /\ WordReader_WordCount(WordWriter_BytesNeeded(k)) = k

\* The largest word count whose bits fit, 70409299, sized to 536870905 bytes
\* and counted back
C29_Witness ==
    /\ pc = "counted"
    /\ x = LargestCount
    /\ x = U32FromInt(70409299)
    /\ BitsFit(x)
    /\ ~BitsFit(U32Add(x, U32FromInt(1)))
    /\ res.bytes = U32FromInt(536870905)
    /\ res.val = x

====
